---- MODULE Spec2Model ----
(***************************************************************************)
(* Alert-to-order pipeline of fyers-simple-app: the paper trading engine   *)
(* (server/services/paperEngine.js), the fill-price simulator              *)
(* (services/marketData.js) and the Chartlink webhook gate                 *)
(* (server/services/webhookService.js).                                    *)
(*                                                                         *)
(* Every `await` on the database or on the market-data provider is an      *)
(* interleaving point of the Node.js event loop: each action below runs    *)
(* one database/provider operation together with the synchronous code      *)
(* that follows it up to the next await.  prisma.$transaction is one       *)
(* atomic step that either commits all of its writes or none.              *)
(*                                                                         *)
(* Prices are integers in units of 0.001 rupee; the quotes used have a     *)
(* last-traded price that is a multiple of 1000 units so that the 10 bps   *)
(* slippage is exact.  Position.avgPrice is an exact fraction <<n, d>>.    *)
(***************************************************************************)
EXTENDS Integers, Sequences, FiniteSets, TLC

VARIABLES
  orders,        \* table "orders": sequence of rows, id = index (createdAt order)
  executions,    \* table "executions": sequence of rows
  positions,     \* table "positions": unique (userId, symbol, mode='paper')
  portfolios,    \* table "portfolios": unique (userId, mode='paper')
  pnl,           \* the activation of calculatePortfolioPnL
  isProcessing,  \* PaperTradingEngine.isProcessing
  timer,         \* PaperTradingEngine.processingInterval and the live timers
  cycle,         \* the activation of processOrders started by the timer
  proc,          \* activations of processOrder, one per calling thread
  canc,          \* the activation of cancelOrder
  alerts,        \* table "alerts": sequence of rows, id = index
  strategies,    \* table "strategies": sequence of rows, id = index
  reqs,          \* activations of processChartlinkAlert, one per delivery
  tasks,         \* activations of processAlertAsync, one per started call
  rateLimitMap,  \* WebhookService.rateLimitMap: ip -> timestamps
  now,           \* Date.now(), in milliseconds
  validator      \* OrderValidationService: orderCounts, and the calls made

vars == <<orders, executions, positions, portfolios, pnl, isProcessing,
          timer, cycle, proc, canc, alerts, strategies, reqs, tasks,
          rateLimitMap, now, validator>>

engineVars == <<orders, executions, positions, portfolios, pnl, isProcessing,
                timer, cycle, proc, canc>>

webhookVars == <<alerts, strategies, reqs, tasks, rateLimitMap, now>>

----------------------------------------------------------------------------
(* Bounds of the model *)

MaxSubmits == 2    \* calls of submitOrder
MaxRequests == 3   \* webhook deliveries
MaxInFlight == 2   \* deliveries being handled at the same time
MaxTime == 1       \* clock steps
MaxValidations == 12 \* accepted calls of validateOrder per account and minute
ClockStep == 60000 \* milliseconds per clock step
MaxTimers == 3     \* start() calls that create a timer

----------------------------------------------------------------------------
(* Values *)

\* JS null / SQL NULL of a nullable numeric column
Null == 0 - 999999999

\* null coerced to a number (Math.min, Math.max, >=, <=)
Num(x) == IF x = Null THEN 0 ELSE x

Abs(x) == IF x < 0 THEN 0 - x ELSE x

Min(a, b) == IF a <= b THEN a ELSE b

Max(a, b) == IF a >= b THEN a ELSE b

RECURSIVE GCD(_, _)
GCD(a, b) == IF b = 0 THEN a ELSE GCD(b, a % b)

\* the fraction n/d in lowest terms with a positive denominator
Frac(n, d) ==
  LET g == GCD(Abs(n), Abs(d))
      s == IF d < 0 THEN 0 - 1 ELSE 1
  IN  <<(s * n) \div g, (s * d) \div g>>

Users == {"u1"}

Symbols == {"NSE:SBIN-EQ"}

TerminalStates == {"filled", "cancelled", "rejected"}

OrderStates == {"new", "working"} \cup TerminalStates

\* accessToken argument: processOrders() is called by the timer without one
NoToken == ""

UserToken == "tok"

\* mutant: the timer hands processOrders a valid access token
TokenOfTimerWithToken(t) == UserToken

\* the accessToken the current activation of processOrders was called with
CycleToken == cycle.token

\* the accessToken processOrder runs with on thread t
TokenOf(t) == IF t = "cycle" THEN CycleToken ELSE UserToken

----------------------------------------------------------------------------
(* Market data provider.  What the provider answers for the symbol is an   *)
(* input of each call: one of QuoteSet.                                    *)

NoQuote == [present |-> FALSE, lp |-> 0, c |-> 0, bid |-> 0, ask |-> 0]

Quote100 == [present |-> TRUE, lp |-> 100000, c |-> 0, bid |-> 99800, ask |-> 99900]

Quote110 == [present |-> TRUE, lp |-> 110000, c |-> 0, bid |-> 109790, ask |-> 109890]

QuoteSet == {NoQuote, Quote100, Quote110}

\* answers of the provider that lack a field (v.ask, v.bid, or both v.lp and
\* v.c); 0 stands for the absent field
QuoteNoAsk == [present |-> TRUE, lp |-> 100000, c |-> 0, bid |-> 99800, ask |-> 0]

QuoteNoBid == [present |-> TRUE, lp |-> 100000, c |-> 0, bid |-> 0, ask |-> 99900]

QuoteNoLtp == [present |-> TRUE, lp |-> 0, c |-> 0, bid |-> 99800, ask |-> 99900]

\* every answer of the provider: complete, absent, or lacking a field
AllQuotes == QuoteSet \cup {QuoteNoAsk, QuoteNoBid, QuoteNoLtp}

\* the answers of the provider where one price level is enough: no data, or
\* the quote at 100
WebhookQuotes == {NoQuote, Quote100}

slippageBps == 10

\* getQuotes throws without an access token; getLTP turns that into null
GetLTP(q, token) ==
  IF token = NoToken \/ ~q.present THEN Null
  ELSE IF q.lp # 0 THEN q.lp
  ELSE IF q.c # 0 THEN q.c
  ELSE Null

\* {bid, ask} with a missing side read as 0, or null (isNull)
GetBidAsk(q, token) ==
  IF token = NoToken \/ ~q.present
  THEN [isNull |-> TRUE, bid |-> 0, ask |-> 0]
  ELSE [isNull |-> FALSE, bid |-> q.bid, ask |-> q.ask]

\* mutant: a limit order is priced like a market order
SimulateFillPriceLimitAsMarket(q, side, type, limitPrice, stopPrice, token) ==
  LET ltp == GetLTP(q, token)
      bidAsk == GetBidAsk(q, token)
  IN  IF ltp = Null THEN Null
      ELSE IF bidAsk.isNull THEN Null
      ELSE
        LET bid == bidAsk.bid
            ask == bidAsk.ask
            slippage == (ltp * slippageBps) \div 10000
        IN  CASE type \in {1, 2} ->
                   IF side = 1 THEN ask + slippage ELSE bid - slippage
              [] type = 3 ->
                   IF side = 1
                   THEN (IF ltp >= Num(stopPrice) THEN ask + slippage ELSE Null)
                   ELSE (IF ltp <= Num(stopPrice) THEN bid - slippage ELSE Null)
              [] type = 4 ->
                   IF side = 1
                   THEN (IF ltp >= Num(stopPrice)
                         THEN Min(Num(limitPrice), ask + slippage) ELSE Null)
                   ELSE (IF ltp <= Num(stopPrice)
                         THEN Max(Num(limitPrice), bid - slippage) ELSE Null)
              [] OTHER -> Null

SimulateFillPrice(q, side, type, limitPrice, stopPrice, token) ==
  LET ltp == GetLTP(q, token)
      bidAsk == GetBidAsk(q, token)
  IN  IF ltp = Null THEN Null
      ELSE IF bidAsk.isNull THEN Null
      ELSE
        LET bid == bidAsk.bid
            ask == bidAsk.ask
            slippage == (ltp * slippageBps) \div 10000
        IN  CASE type = 1 ->
                   IF side = 1 THEN Min(Num(limitPrice), ask + slippage)
                   ELSE Max(Num(limitPrice), bid - slippage)
              [] type = 2 ->
                   IF side = 1 THEN ask + slippage ELSE bid - slippage
              [] type = 3 ->
                   IF side = 1
                   THEN (IF ltp >= Num(stopPrice) THEN ask + slippage ELSE Null)
                   ELSE (IF ltp <= Num(stopPrice) THEN bid - slippage ELSE Null)
              [] type = 4 ->
                   IF side = 1
                   THEN (IF ltp >= Num(stopPrice)
                         THEN Min(Num(limitPrice), ask + slippage) ELSE Null)
                   ELSE (IF ltp <= Num(stopPrice)
                         THEN Max(Num(limitPrice), bid - slippage) ELSE Null)
              [] OTHER -> Null

----------------------------------------------------------------------------
(* Rows *)

\* orderData accepted by validateOrder and handed to submitOrder
MarketOrder(side, qty) ==
  [side |-> side, type |-> 2, productType |-> "INTRADAY", qty |-> qty,
   limitPrice |-> Null, stopPrice |-> Null, stopLoss |-> Null,
   takeProfit |-> Null]

BracketOrder ==
  [side |-> 1, type |-> 2, productType |-> "BO", qty |-> 100,
   limitPrice |-> Null, stopPrice |-> Null, stopLoss |-> 5000,
   takeProfit |-> 10000]

CoverOrder ==
  [side |-> 1, type |-> 2, productType |-> "CO", qty |-> 100,
   limitPrice |-> Null, stopPrice |-> Null, stopLoss |-> 5000,
   takeProfit |-> Null]

\* a Cover order on the sell side
CoverSell == [CoverOrder EXCEPT !.side = 0 - 1]

\* a limit order that rests until the market reaches it
LimitOrder(side, limitPrice) ==
  [side |-> side, type |-> 1, productType |-> "INTRADAY", qty |-> 100,
   limitPrice |-> limitPrice, stopPrice |-> Null, stopLoss |-> Null,
   takeProfit |-> Null]

\* a stop order (market on trigger); stopPrice Null: no stop price given
StopOrder(side, stopPrice) ==
  [side |-> side, type |-> 3, productType |-> "INTRADAY", qty |-> 100,
   limitPrice |-> Null, stopPrice |-> stopPrice, stopLoss |-> Null,
   takeProfit |-> Null]

\* the resting orders submitted to exercise the fill rules: a buy limit, a
\* sell limit and a buy stop between the two quotes, a sell stop below them,
\* a buy stop without a stop price, and a market order
FillInputs ==
  {LimitOrder(1, 105000), LimitOrder(0 - 1, 105000), StopOrder(1, 105000),
   StopOrder(0 - 1, 95000), StopOrder(1, Null), MarketOrder(1, 100)}

\* resting orders that the quote at 100 makes fillable: a buy limit above the
\* ask, a sell limit below the bid, and a buy stop below the last price
FillableInputs ==
  {LimitOrder(1, 101000), LimitOrder(0 - 1, 99000), StopOrder(1, 95000)}

\* the orders submitted to exercise the Cover and Bracket children
BracketInputs == {BracketOrder, CoverOrder, CoverSell}

\* the orders submitted while the timer and cancellations run concurrently
EngineInputs == {MarketOrder(1, 100), CoverOrder}

\* the orders submitted one after the other to exercise the position rows
PositionInputs ==
  {MarketOrder(s, q) : s \in {1, 0 - 1}, q \in {100, 200}} \cup {CoverOrder}

\* number of child orders handleCOBOOrders creates for a product type
NumChildren(productType) ==
  IF productType = "CO" THEN 1 ELSE IF productType = "BO" THEN 2 ELSE 0

\* the row prisma.order.create stores in submitOrder; parent is a history
\* field (0: submitted order, otherwise the id of the CO/BO parent)
NewOrder(orderData, userId, symbol) ==
  [userId |-> userId, side |-> orderData.side, type |-> orderData.type,
   productType |-> orderData.productType, symbol |-> symbol,
   qty |-> orderData.qty, limitPrice |-> orderData.limitPrice,
   stopPrice |-> orderData.stopPrice, stopLoss |-> orderData.stopLoss,
   takeProfit |-> orderData.takeProfit, state |-> "new",
   alertId |-> 0, parent |-> 0]

\* no row; mtm is the stored mark-to-market, 0 in a new row
NoPos == [exists |-> FALSE, qty |-> 0, avgPrice |-> <<0, 1>>, mtm |-> <<0, 1>>]

\* no Portfolio row for the account
NoPortfolio == [exists |-> FALSE, totalPnl |-> <<0, 1>>]

\* calculatePortfolioPnL is not running.  positions is the result of
\* findMany, queue the keys of the rows still to update, quote the answer of
\* getQuotes for the symbol, totalPnL the local sum.
IdlePnl == [pc |-> "idle", userId |-> "", positions |-> <<>>, queue |-> <<>>,
            quote |-> NoQuote, totalPnL |-> <<0, 1>>]

PosKeys == Users \X Symbols

\* reason: the reason rejectOrder is called with ("liquidity": the market
\* order could not be filled, "error": processing error).  quote (what the
\* provider answered in the simulateFillPrice call of this activation) and
\* simulated (what simulateFillPrice returned) are history.
IdleProc == [pc |-> "idle", orderId |-> 0, fillPrice |-> Null, reason |-> "none",
             caller |-> 0, quote |-> NoQuote, simulated |-> Null]

\* running (the number of processOrders bodies in progress) and skipped (a
\* tick has returned at the isProcessing check during this cycle) are history
IdleCycle == [pc |-> "idle", queue |-> <<>>, running |-> 0, skipped |-> FALSE,
              token |-> NoToken, thrown |-> "none"]

IdleCanc == [pc |-> "idle", orderId |-> 0]

\* the engine as constructed: processingInterval = null (0), no timer.
\* live is the set of the intervals set and not cleared, created their
\* number so far; ignored (a start() has returned at its check) is history.
NoTimer == [processingInterval |-> 0, live |-> {}, created |-> 0,
            ignored |-> FALSE]

\* the engine after initializeServices has called paperEngine.start()
StartedTimer == [NoTimer EXCEPT !.processingInterval = 1, !.live = {1},
                                !.created = 1]

Threads == {"cycle", "submit"}

----------------------------------------------------------------------------
(* Paper trading engine: position bookkeeping and CO/BO children *)

\* updatePosition(tx, userId, symbol, side, qty, price): the positions table
\* after the call
UpdatePosition(pos, userId, symbol, side, qty, price) ==
  LET k == <<userId, symbol>>
      existingPosition == pos[k]
  IN  IF existingPosition.exists
      THEN LET newQty == existingPosition.qty + (side * qty)
           IN  IF newQty = 0
               THEN [pos EXCEPT ![k] = NoPos]
               ELSE LET a == existingPosition.avgPrice
                        \* (qty * avgPrice + side * qty * price) / |newQty|
                        newAvgPrice ==
                          Frac(existingPosition.qty * a[1] + side * qty * price * a[2],
                               a[2] * Abs(newQty))
                    IN  [pos EXCEPT ![k] = [exists |-> TRUE, qty |-> newQty,
                                            avgPrice |-> newAvgPrice,
                                            mtm |-> existingPosition.mtm]]
      ELSE IF side * qty > 0
           THEN [pos EXCEPT ![k] = [exists |-> TRUE, qty |-> side * qty,
                                    avgPrice |-> <<price, 1>>,
                                    mtm |-> <<0, 1>>]]
           ELSE pos

\* mutant: a child inherits the product type of its parent
ChildProductTypeOfParent(parentOrder) == parentOrder.productType

\* handleCOBOOrders: productType: 'INTRADAY' in every order.create
ChildProductType(parentOrder) == "INTRADAY"

\* the child row of a CO/BO parent: kind is "sl" (stop loss) or "tp" (take profit)
ChildOrder(parentOrder, parentId, kind, price) ==
  [userId |-> parentOrder.userId, side |-> 0 - parentOrder.side,
   type |-> IF kind = "sl" THEN 2 ELSE 1,
   productType |-> ChildProductType(parentOrder), symbol |-> parentOrder.symbol,
   qty |-> parentOrder.qty,
   limitPrice |-> IF kind = "tp" THEN price ELSE Null,
   stopPrice |-> IF kind = "sl" THEN price ELSE Null,
   stopLoss |-> Null, takeProfit |-> Null, state |-> "new",
   alertId |-> parentOrder.alertId, parent |-> parentId]

\* mutant: a Bracket parent gets its stop-loss child only
HandleCOBOOrdersOneChild(parentOrder, parentId, fillPrice) ==
  LET stopPrice == fillPrice - (parentOrder.side * Num(parentOrder.stopLoss))
  IN  IF parentOrder.productType \in {"CO", "BO"}
      THEN <<ChildOrder(parentOrder, parentId, "sl", stopPrice)>>
      ELSE <<>>

\* mutant: the stop price is put on the wrong side of the fill price
HandleCOBOOrdersStopAdded(parentOrder, parentId, fillPrice) ==
  LET stopPrice == fillPrice + (parentOrder.side * Num(parentOrder.stopLoss))
      targetPrice == fillPrice + (parentOrder.side * Num(parentOrder.takeProfit))
  IN  IF parentOrder.productType = "CO"
      THEN <<ChildOrder(parentOrder, parentId, "sl", stopPrice)>>
      ELSE IF parentOrder.productType = "BO"
      THEN <<ChildOrder(parentOrder, parentId, "sl", stopPrice),
             ChildOrder(parentOrder, parentId, "tp", targetPrice)>>
      ELSE <<>>

\* handleCOBOOrders(tx, parentOrder, fillPrice): the rows it creates, in order
HandleCOBOOrders(parentOrder, parentId, fillPrice) ==
  LET stopPrice == fillPrice - (parentOrder.side * Num(parentOrder.stopLoss))
      targetPrice == fillPrice + (parentOrder.side * Num(parentOrder.takeProfit))
  IN  IF parentOrder.productType = "CO"
      THEN <<ChildOrder(parentOrder, parentId, "sl", stopPrice)>>
      ELSE IF parentOrder.productType = "BO"
      THEN <<ChildOrder(parentOrder, parentId, "sl", stopPrice),
             ChildOrder(parentOrder, parentId, "tp", targetPrice)>>
      ELSE <<>>

----------------------------------------------------------------------------
(* Paper trading engine: operations *)

\* ids of the rows findMany returns in processOrders: paper orders in state
\* new or working, createdAt ascending
RECURSIVE ActiveFrom(_, _)
ActiveFrom(ords, i) ==
  IF i > Len(ords) THEN <<>>
  ELSE IF ords[i].state \in {"new", "working"}
       THEN <<i>> \o ActiveFrom(ords, i + 1)
       ELSE ActiveFrom(ords, i + 1)

ActiveOrders(ords) == ActiveFrom(ords, 1)

\* processOrder on thread t has returned: the caller continues.  In
\* processOrders the loop takes the next queued order, or ends and releases
\* isProcessing in its finally block; submitOrder returns the order.
FinishProc(t) ==
  IF t = "cycle"
  THEN IF Len(cycle.queue) > 1
       THEN /\ cycle' = [cycle EXCEPT !.queue = Tail(@)]
            /\ proc' = [proc EXCEPT ![t] = [IdleProc EXCEPT !.pc = "find",
                                              !.orderId = cycle.queue[2]]]
            /\ UNCHANGED isProcessing
       ELSE /\ cycle' = IdleCycle
            /\ isProcessing' = FALSE
            /\ proc' = [proc EXCEPT ![t] = IdleProc]
  ELSE /\ proc' = [proc EXCEPT ![t] =
                     IF proc[t].caller = 0 THEN IdleProc
                     ELSE [proc[t] EXCEPT !.pc = "ret"]]
       /\ UNCHANGED <<cycle, isProcessing>>

\* submitOrder: prisma.order.create, the order row is created in state new;
\* the call goes on to logEvent('order_placed')
SubmitCreate(orderData, userId, symbol, caller) ==
  /\ proc["submit"].pc = "idle"
  /\ Cardinality({i \in 1..Len(orders) : orders[i].parent = 0}) < MaxSubmits
  /\ orders' = Append(orders, NewOrder(orderData, userId, symbol))
  /\ proc' = [proc EXCEPT !["submit"] =
                [IdleProc EXCEPT !.pc = "placed", !.orderId = Len(orders) + 1,
                                 !.caller = caller]]

\* mutant: submitOrder calls processOrder for an order of any kind
AttemptsAtOnceAnyKind(type) == TRUE

\* submitOrder: if (orderData.type === 2), the kinds it attempts at once
AttemptsAtOnce(type) == type = 2

\* submitOrder after logEvent has written the order_placed event: a market
\* order goes on to processOrder, an order of any other kind is returned
SubmitLogged ==
  /\ proc["submit"].pc = "placed"
  /\ proc' = [proc EXCEPT !["submit"] =
                IF AttemptsAtOnce(orders[proc["submit"].orderId].type)
                THEN [@ EXCEPT !.pc = "find"]
                ELSE IF @.caller = 0 THEN IdleProc
                ELSE [@ EXCEPT !.pc = "ret"]]
  /\ UNCHANGED <<orders, executions, positions, portfolios, pnl, isProcessing,
                 timer, cycle, canc, webhookVars, validator>>

\* POST /api/orders -> paperEngine.submitOrder
SubmitOrder(inputs) ==
  \E orderData \in inputs, userId \in Users, symbol \in Symbols :
    /\ SubmitCreate(orderData, userId, symbol, 0)
    /\ UNCHANGED <<executions, positions, portfolios, pnl, isProcessing,
                   timer, cycle, canc, webhookVars, validator>>

\* processOrder: findUnique and the state checks
ProcessOrderFind(t) ==
  /\ proc[t].pc = "find"
  /\ LET order == orders[proc[t].orderId]
     IN  IF order.state \in TerminalStates
         THEN FinishProc(t)
         ELSE /\ proc' = [proc EXCEPT ![t].pc =
                            IF order.state = "new" THEN "toWorking" ELSE "simulate"]
              /\ UNCHANGED <<cycle, isProcessing>>
  /\ UNCHANGED <<orders, executions, positions, portfolios, pnl, timer, canc,
                 webhookVars, validator>>

\* processOrder: update state to working (the order read earlier was new)
ProcessOrderToWorking(t) ==
  /\ proc[t].pc = "toWorking"
  /\ orders' = [orders EXCEPT ![proc[t].orderId].state = "working"]
  /\ proc' = [proc EXCEPT ![t].pc = "simulate"]
  /\ UNCHANGED <<executions, positions, portfolios, pnl, isProcessing, timer,
                 cycle, canc, webhookVars, validator>>

\* mutant: an order of any kind is rejected when its attempt yields no fill
RejectsOnNoFillAnyKind(type) == TRUE

\* processOrder: else if (order.type === 2), the kinds rejected when the
\* attempt yields no fill
RejectsOnNoFill(type) == type = 2

\* processOrder: simulateFillPrice and the decision taken on its result
ProcessOrderSimulate(t, quotes) ==
  /\ proc[t].pc = "simulate"
  /\ \E quote \in quotes :
     LET order == orders[proc[t].orderId]
         fillPrice == SimulateFillPrice(quote, order.side, order.type,
                                        order.limitPrice, order.stopPrice,
                                        TokenOf(t))
     IN  IF fillPrice # Null /\ fillPrice > 0
         THEN /\ proc' = [proc EXCEPT ![t].pc = "fillTx", ![t].fillPrice = fillPrice,
                                       ![t].quote = quote,
                                       ![t].simulated = fillPrice]
              /\ UNCHANGED <<cycle, isProcessing>>
         ELSE IF RejectsOnNoFill(order.type)
         THEN /\ proc' = [proc EXCEPT ![t].pc = "reject", ![t].reason = "liquidity",
                                       ![t].quote = quote,
                                       ![t].simulated = fillPrice]
              /\ UNCHANGED <<cycle, isProcessing>>
         ELSE FinishProc(t)
  /\ UNCHANGED <<orders, executions, positions, portfolios, pnl, timer, canc,
                 webhookVars, validator>>

\* the writes of the transaction in fillOrder
FillOrderTx(orderId, fillPrice, fillQty) ==
  LET order == orders[orderId]
      filled == [orders EXCEPT ![orderId].state = "filled"]
  IN  /\ executions' = Append(executions,
                         [orderId |-> orderId, symbol |-> order.symbol,
                          price |-> fillPrice, qty |-> fillQty,
                          side |-> order.side])
      /\ positions' = UpdatePosition(positions, order.userId, order.symbol,
                                     order.side, fillQty, fillPrice)
      /\ orders' = IF order.productType \in {"CO", "BO"}
                   THEN filled \o HandleCOBOOrders(order, orderId, fillPrice)
                   ELSE filled

\* fillOrder: the transaction commits
FillOrder(t) ==
  /\ proc[t].pc = "fillTx"
  /\ FillOrderTx(proc[t].orderId, proc[t].fillPrice, orders[proc[t].orderId].qty)
  /\ FinishProc(t)
  /\ UNCHANGED <<portfolios, pnl, timer, canc, webhookVars, validator>>

\* fillOrder: the transaction fails and rolls back; processOrder catches the
\* error and calls rejectOrder
FillOrderFault(t) ==
  /\ proc[t].pc = "fillTx"
  /\ proc' = [proc EXCEPT ![t].pc = "reject", ![t].reason = "error"]
  /\ UNCHANGED <<orders, executions, positions, portfolios, pnl, isProcessing,
                 timer, cycle, canc, webhookVars, validator>>

\* rejectOrder
RejectOrder(t) ==
  /\ proc[t].pc = "reject"
  /\ orders' = [orders EXCEPT ![proc[t].orderId].state = "rejected"]
  /\ FinishProc(t)
  /\ UNCHANGED <<executions, positions, portfolios, pnl, timer, canc,
                 webhookVars, validator>>

\* mutant: processOrders without the isProcessing check
NoSingleFlightGuard == FALSE

\* processOrders: if (this.isProcessing) return
SingleFlightGuard == isProcessing

\* processOrders(accessToken) through findMany to the start of the loop.  A
\* call that finds isProcessing set returns at once; with no active order
\* the loop is empty and finally releases the flag.  (The call only reads
\* isProcessing before findMany, so running the two together loses no
\* interleaving.)
ProcessOrders(accessToken) ==
  /\ IF SingleFlightGuard
     THEN /\ cycle' = [cycle EXCEPT !.skipped = TRUE]
          /\ UNCHANGED <<isProcessing, proc>>
     ELSE LET ids == ActiveOrders(orders)
          IN  IF ids = <<>>
              THEN UNCHANGED <<isProcessing, cycle, proc>>
              ELSE /\ isProcessing' = TRUE
                   /\ cycle' = [pc |-> "loop", queue |-> ids,
                                running |-> cycle.running + 1,
                                skipped |-> FALSE, token |-> accessToken,
                                thrown |-> "none"]
                   /\ proc' = [proc EXCEPT !["cycle"] =
                                 [IdleProc EXCEPT !.pc = "find", !.orderId = ids[1]]]
  /\ UNCHANGED <<orders, executions, positions, portfolios, pnl, timer, canc,
                 webhookVars, validator>>

\* the setInterval callback of start(): processOrders() without an argument
Tick == ProcessOrders(NoToken)

\* mutant: processOrders without the finally block
FlagAfterThrowKept == isProcessing

\* processOrders: finally { this.isProcessing = false }, the flag after an
\* error has left the try block
FlagAfterThrow == FALSE

\* processOrders sets the flag and starts an order.findMany that will fail
ProcessOrdersQuery ==
  /\ ~SingleFlightGuard
  /\ isProcessing' = TRUE
  /\ cycle' = [IdleCycle EXCEPT !.pc = "query", !.running = cycle.running + 1]
  /\ UNCHANGED <<orders, executions, positions, portfolios, pnl, timer, proc,
                 canc, webhookVars, validator>>

\* order.findMany throws: the error leaves processOrders through finally.
\* thrown (where the last cycle was left by an error) is history.
ProcessOrdersQueryFault ==
  /\ cycle.pc = "query"
  /\ isProcessing' = FlagAfterThrow
  /\ cycle' = [IdleCycle EXCEPT !.thrown = "findMany"]
  /\ UNCHANGED <<orders, executions, positions, portfolios, pnl, timer, proc,
                 canc, webhookVars, validator>>

\* processOrder of the cycle throws outside its own try block (findUnique or
\* the update to working fails): the catch block of the loop rejects the order
ProcessOrderFault ==
  /\ proc["cycle"].pc \in {"find", "toWorking"}
  /\ proc' = [proc EXCEPT !["cycle"].pc = "reject", !["cycle"].reason = "error"]
  /\ UNCHANGED <<orders, executions, positions, portfolios, pnl, isProcessing,
                 timer, cycle, canc, webhookVars, validator>>

\* rejectOrder of the cycle throws, and so does the rejectOrder of every
\* catch block on the way out: the error leaves the loop, the orders still
\* queued are not processed, and processOrders ends through finally
RejectOrderFault ==
  /\ proc["cycle"].pc = "reject"
  /\ isProcessing' = FlagAfterThrow
  /\ cycle' = [IdleCycle EXCEPT !.thrown = "rejectOrder"]
  /\ proc' = [proc EXCEPT !["cycle"] = IdleProc]
  /\ UNCHANGED <<orders, executions, positions, portfolios, pnl, timer, canc,
                 webhookVars, validator>>

\* mutant: start() without its check
AlreadyRunningNever == FALSE

\* start: if (this.processingInterval) return
AlreadyRunning == timer.processingInterval # 0

\* start(): setInterval, unless the engine is already running
Start ==
  /\ timer.created < MaxTimers
  /\ timer' = IF AlreadyRunning
              THEN [timer EXCEPT !.ignored = TRUE]
              ELSE [timer EXCEPT !.processingInterval = timer.created + 1,
                                 !.live = @ \cup {timer.created + 1},
                                 !.created = @ + 1]
  /\ UNCHANGED <<orders, executions, positions, portfolios, pnl, isProcessing,
                 cycle, proc, canc, webhookVars, validator>>

\* stop(): clearInterval(this.processingInterval), processingInterval = null
Stop ==
  /\ timer' = IF timer.processingInterval # 0
              THEN [timer EXCEPT !.live = @ \ {timer.processingInterval},
                                 !.processingInterval = 0]
              ELSE timer
  /\ UNCHANGED <<orders, executions, positions, portfolios, pnl, isProcessing,
                 cycle, proc, canc, webhookVars, validator>>

\* the callback of a live timer runs
TimerTick ==
  /\ timer.live # {}
  /\ Tick

\* cancelOrder: findUnique and the state checks
CancelOrderFind ==
  \E orderId \in 1..Len(orders) :
    /\ canc.pc = "idle"
    /\ canc' = IF orders[orderId].state \in TerminalStates
               THEN IdleCanc
               ELSE [pc |-> "update", orderId |-> orderId]
    /\ UNCHANGED <<orders, executions, positions, portfolios, pnl,
                   isProcessing, timer, cycle, proc, webhookVars, validator>>

\* cancelOrder: the update to cancelled
CancelOrderUpdate ==
  /\ canc.pc = "update"
  /\ orders' = [orders EXCEPT ![canc.orderId].state = "cancelled"]
  /\ canc' = IdleCanc
  /\ UNCHANGED <<executions, positions, portfolios, pnl, isProcessing, timer,
                 cycle, proc, webhookVars, validator>>

----------------------------------------------------------------------------
(* Paper trading engine: calculatePortfolioPnL *)

\* the sum of two fractions
FracAdd(a, b) == Frac(a[1] * b[2] + b[1] * a[2], a[2] * b[2])

\* (currentPrice - position.avgPrice) * position.qty
Mtm(currentPrice, position) ==
  Frac((currentPrice * position.avgPrice[2] - position.avgPrice[1]) * position.qty,
       position.avgPrice[2])

\* the keys of the account's rows in a positions table, as a sequence
RECURSIVE KeysOf(_)
KeysOf(K) ==
  IF K = {} THEN <<>>
  ELSE LET k == CHOOSE x \in K : TRUE IN <<k>> \o KeysOf(K \ {k})

\* position.findMany({userId, mode: 'paper'}); with no row the loop is
\* skipped and the portfolio upsert is next
CalculatePortfolioPnL(userId) ==
  /\ pnl.pc = "idle"
  /\ LET found == {k \in PosKeys : k[1] = userId /\ positions[k].exists}
     IN  pnl' = [IdlePnl EXCEPT !.pc = IF found = {} THEN "upsert" ELSE "quotes",
                                !.userId = userId,
                                !.positions = [k \in found |-> positions[k]],
                                !.queue = KeysOf(found)]
  /\ UNCHANGED <<orders, executions, positions, portfolios, isProcessing,
                 timer, cycle, proc, canc, webhookVars, validator>>

\* marketData.getQuotes answers; the rows without `symbolData?.v?.lp` are
\* passed over
PnLQuotes(quotes) ==
  /\ pnl.pc = "quotes"
  /\ \E q \in quotes :
       LET queue == IF q.present /\ q.lp # 0 THEN pnl.queue ELSE <<>>
       IN  pnl' = [pnl EXCEPT !.quote = q, !.queue = queue,
                              !.pc = IF queue = <<>> THEN "upsert" ELSE "update"]
  /\ UNCHANGED <<orders, executions, positions, portfolios, isProcessing,
                 timer, cycle, proc, canc, webhookVars, validator>>

\* marketData.getQuotes throws: the catch block returns 0
PnLQuotesFault ==
  /\ pnl.pc = "quotes"
  /\ pnl' = IdlePnl
  /\ UNCHANGED <<orders, executions, positions, portfolios, isProcessing,
                 timer, cycle, proc, canc, webhookVars, validator>>

\* position.update({id}, {mtm}) and totalPnL += mtm for the next row.  The
\* update of a row deleted since findMany throws: the catch block returns 0.
PnLUpdate ==
  /\ pnl.pc = "update"
  /\ LET k == Head(pnl.queue)
         mtm == Mtm(pnl.quote.lp, pnl.positions[k])
         rest == Tail(pnl.queue)
     IN  IF positions[k].exists
         THEN /\ positions' = [positions EXCEPT ![k].mtm = mtm]
              /\ pnl' = [pnl EXCEPT !.queue = rest,
                                     !.totalPnL = FracAdd(@, mtm),
                                     !.pc = IF rest = <<>> THEN "upsert"
                                            ELSE "update"]
         ELSE /\ pnl' = IdlePnl
              /\ UNCHANGED positions
  /\ UNCHANGED <<orders, executions, portfolios, isProcessing, timer, cycle,
                 proc, canc, webhookVars, validator>>

\* portfolio.upsert({userId, mode: 'paper'}, {totalPnl: totalPnL}); return
PnLUpsert ==
  /\ pnl.pc = "upsert"
  /\ portfolios' = [portfolios EXCEPT ![pnl.userId] =
                      [exists |-> TRUE, totalPnl |-> pnl.totalPnL]]
  /\ pnl' = IdlePnl
  /\ UNCHANGED <<orders, executions, positions, isProcessing, timer, cycle,
                 proc, canc, webhookVars, validator>>

----------------------------------------------------------------------------
(* Order validation: OrderValidationService and the symbol master *)

\* MAX_NOTIONAL_PER_ORDER default, in rupees
maxNotionalPerOrder == 1000000

\* MAX_ORDERS_PER_MINUTE default
maxOrdersPerMinute == 10

\* symbol metadata as getSymbolMeta returns it (tick size in units of 0.001
\* rupee); NoMeta: getSymbolMeta throws, no metadata for the symbol
NoMeta == [present |-> FALSE, tickSize |-> 0, lotSize |-> 0]

MetaEQ == [present |-> TRUE, tickSize |-> 50, lotSize |-> 1]

MetaFUT == [present |-> TRUE, tickSize |-> 50, lotSize |-> 25]

Metas == {NoMeta, MetaEQ, MetaFUT}

\* JS truthiness of a numeric field: absent and 0 are falsy
Truthy(x) == x # Null /\ x # 0

\* isValidTickMultiple: |price/tickSize - round(price/tickSize)| < 1e-6.
\* Prices and tick sizes are whole numbers of 0.001 rupee and the tick sizes
\* are at most 1000 units, so the quotient is off an integer by at least
\* 0.001 unless the division is exact.
IsValidTickMultiple(price, tickSize) ==
  IF tickSize = 0 THEN TRUE ELSE price % tickSize = 0

\* isValidLotMultiple: qty > 0 && qty % lotSize === 0 (qty % 0 is NaN)
IsValidLotMultiple(qty, lotSize) ==
  qty > 0 /\ lotSize # 0 /\ qty % lotSize = 0

\* a symbol that preloadCommonSymbols does not load
OtherSymbol == "NSE:IDEA-EQ"

\* the symbols validateOrder is asked about
ValidatorSymbols == Symbols \cup {OtherSymbol}

\* isValidSymbolFormat: /^[A-Z]+:[A-Z0-9]+-[A-Z]+$/ on the symbols in use
IsValidSymbolFormat(symbol) == symbol \in ValidatorSymbols

ValidProductTypes == {"INTRADAY", "CNC", "MARGIN", "CO", "BO", "MTF"}

\* order tags in use: "" is no tag; /^[a-zA-Z0-9]+$/ and the length 1..30
\* hold for "algo1", "clientID" and "Untagged", and "my tag" has a blank
OrderTags == {"", "algo1", "clientID", "my tag"}

IsAlphanumeric(orderTag) == orderTag \in {"algo1", "clientID", "Untagged"}

\* an order payload as validateOrder receives it; Null is an absent field
OrderPayload(symbol, side, type, productType, qty, limitPrice, stopLoss) ==
  [symbol |-> symbol, side |-> side, type |-> type,
   productType |-> productType, qty |-> qty, limitPrice |-> limitPrice,
   stopPrice |-> Null, stopLoss |-> stopLoss, takeProfit |-> Null,
   orderTag |-> "", validity |-> "DAY", disclosedQty |-> 0]

\* validateBasicFields: the errors
ValidateBasicFields(payload) ==
  {e \in {"missing symbol", "missing side", "missing type",
          "missing productType", "missing qty", "symbol format", "side",
          "type", "productType", "qty"} :
     \/ e = "missing symbol" /\ payload.symbol = ""
     \/ e = "missing side" /\ payload.side = Null
     \/ e = "missing type" /\ payload.type = Null
     \/ e = "missing productType" /\ payload.productType = ""
     \/ e = "missing qty" /\ payload.qty = Null
     \/ e = "symbol format" /\ payload.symbol # ""
                            /\ ~IsValidSymbolFormat(payload.symbol)
     \/ e = "side" /\ Truthy(payload.side) /\ payload.side \notin {1, 0 - 1}
     \/ e = "type" /\ Truthy(payload.type) /\ payload.type \notin {1, 2, 3, 4}
     \/ e = "productType" /\ payload.productType # ""
                          /\ payload.productType \notin ValidProductTypes
     \/ e = "qty" /\ Truthy(payload.qty) /\ payload.qty <= 0}

\* validatePrices: the errors (the warnings do not enter the verdict).  A
\* comparison with an absent (undefined) price is false.
ValidatePrices(payload, symbolMeta, ltp) ==
  {e \in {"limit tick", "stop tick", "buy stop below ltp",
          "sell stop above ltp", "stopLoss tick", "takeProfit tick",
          "buy stop-limit", "sell stop-limit"} :
     \/ e = "limit tick"
          /\ Truthy(payload.limitPrice) /\ payload.limitPrice > 0
          /\ ~IsValidTickMultiple(payload.limitPrice, symbolMeta.tickSize)
     \/ e = "stop tick"
          /\ Truthy(payload.stopPrice) /\ payload.stopPrice > 0
          /\ ~IsValidTickMultiple(payload.stopPrice, symbolMeta.tickSize)
     \/ e = "buy stop below ltp"
          /\ Truthy(payload.stopPrice) /\ payload.stopPrice > 0
          /\ Truthy(ltp) /\ payload.type # Null /\ payload.type >= 3
          /\ payload.side = 1 /\ payload.stopPrice < ltp
     \/ e = "sell stop above ltp"
          /\ Truthy(payload.stopPrice) /\ payload.stopPrice > 0
          /\ Truthy(ltp) /\ payload.type # Null /\ payload.type >= 3
          /\ payload.side # 1 /\ payload.stopPrice > ltp
     \/ e = "stopLoss tick"
          /\ Truthy(payload.stopLoss) /\ payload.stopLoss > 0
          /\ ~IsValidTickMultiple(payload.stopLoss, symbolMeta.tickSize)
     \/ e = "takeProfit tick"
          /\ Truthy(payload.takeProfit) /\ payload.takeProfit > 0
          /\ ~IsValidTickMultiple(payload.takeProfit, symbolMeta.tickSize)
     \/ e = "buy stop-limit"
          /\ payload.type = 4 /\ payload.side = 1
          /\ payload.stopPrice # Null /\ payload.limitPrice # Null
          /\ payload.stopPrice < payload.limitPrice
     \/ e = "sell stop-limit"
          /\ payload.type = 4 /\ payload.side # 1
          /\ payload.stopPrice # Null /\ payload.limitPrice # Null
          /\ payload.stopPrice > payload.limitPrice}

\* validateQuantity: the errors
ValidateQuantity(qty, symbolMeta) ==
  IF IsValidLotMultiple(qty, symbolMeta.lotSize) THEN {} ELSE {"lot size"}

\* validateProductType: the errors
ValidateProductType(payload) ==
  {e \in {"CO stopLoss", "CO disclosedQty", "CO validity", "CO type",
          "BO stopLoss", "BO takeProfit", "BO disclosedQty", "BO validity"} :
     \/ e = "CO stopLoss" /\ payload.productType = "CO"
                          /\ (~Truthy(payload.stopLoss) \/ payload.stopLoss <= 0)
     \/ e = "CO disclosedQty" /\ payload.productType = "CO"
                              /\ Truthy(payload.disclosedQty)
                              /\ payload.disclosedQty > 0
     \/ e = "CO validity" /\ payload.productType = "CO"
                          /\ payload.validity # "DAY"
     \/ e = "CO type" /\ payload.productType = "CO"
                      /\ payload.type \notin {1, 2}
     \/ e = "BO stopLoss" /\ payload.productType = "BO"
                          /\ (~Truthy(payload.stopLoss) \/ payload.stopLoss <= 0)
     \/ e = "BO takeProfit" /\ payload.productType = "BO"
                            /\ (~Truthy(payload.takeProfit) \/ payload.takeProfit <= 0)
     \/ e = "BO disclosedQty" /\ payload.productType = "BO"
                              /\ Truthy(payload.disclosedQty)
                              /\ payload.disclosedQty > 0
     \/ e = "BO validity" /\ payload.productType = "BO"
                          /\ payload.validity # "DAY"}

\* the key of orderCounts: `${userId}_${Math.floor(now / 60000)}`
MinuteKey(userId, time) == <<userId, time \div 60000>>

\* cleanupOrderCounts: entries older than 5 minutes are deleted
CleanupOrderCounts(counts, time) ==
  [k \in {x \in DOMAIN counts : (time \div 60000) - x[2] <= 5} |-> counts[k]]

\* validateRiskLimits: [errors, orderCounts]: the errors and the counter map
\* afterwards.  The notional is (limitPrice || 0) * qty, in 0.001 rupee.
ValidateRiskLimits(payload, userId, counts, time) ==
  LET notional == (IF Truthy(payload.limitPrice) THEN payload.limitPrice ELSE 0)
                  * payload.qty
      minuteKey == MinuteKey(userId, time)
      withKey == IF minuteKey \in DOMAIN counts THEN counts
                 ELSE [k \in DOMAIN counts \cup {minuteKey} |->
                         IF k = minuteKey THEN 0 ELSE counts[k]]
      currentCount == withKey[minuteKey]
  IN  [errors |->
         (IF notional > maxNotionalPerOrder * 1000 THEN {"notional"} ELSE {})
         \cup (IF currentCount >= maxOrdersPerMinute THEN {"order rate"} ELSE {}),
       orderCounts |-> CleanupOrderCounts(withKey, time)]

\* validateOrderTag: the errors
ValidateOrderTag(orderTag, productType) ==
  IF orderTag = "" THEN {}
  ELSE (IF productType \in {"BO", "CO"} THEN {"tag on BO/CO"} ELSE {})
       \cup (IF IsAlphanumeric(orderTag) THEN {} ELSE {"tag format"})
       \cup (IF orderTag \in {"clientID", "Untagged"} THEN {"tag reserved"} ELSE {})

\* validateOrder: [isValid, errors, orderCounts].  Basic errors end the call
\* at once; missing symbol metadata makes getSymbolMeta throw, which the
\* catch block turns into a rejection.
ValidateOrderResult(payload, userId, symbolMeta, quote, token, counts, time) ==
  LET basic == ValidateBasicFields(payload)
      risk == ValidateRiskLimits(payload, userId, counts, time)
      errors == ValidatePrices(payload, symbolMeta, GetLTP(quote, token))
                \cup ValidateQuantity(payload.qty, symbolMeta)
                \cup ValidateProductType(payload)
                \cup risk.errors
                \cup ValidateOrderTag(payload.orderTag, payload.productType)
  IN  IF basic # {}
      THEN [isValid |-> FALSE, errors |-> basic, orderCounts |-> counts]
      ELSE IF ~symbolMeta.present
      THEN [isValid |-> FALSE, errors |-> {"validation error"},
            orderCounts |-> counts]
      ELSE [isValid |-> errors = {}, errors |-> errors,
            orderCounts |-> risk.orderCounts]

\* getDefaultSymbolMeta: tick size 0.05 and lot size 1 for the "-EQ" symbols
\* (every symbol in use is one)
GetDefaultSymbolMeta(symbol) == MetaEQ

\* getSymbolMeta(symbol), answering symbolMeta: [possible, symbolMetaRows,
\* cache]: whether the answer is possible with the given SymbolMeta table and
\* cache, and the table and the cache afterwards.  A cached entry is
\* returned as it is.  On a cache miss the row of the table is read; when
\* there is none, fetchAndCacheSymbolMeta upserts the default metadata as a
\* new row; the answer is then cached.  NoMeta: the database call failed, and
\* getSymbolMeta throws.
GetSymbolMeta(rows, cache, symbol, symbolMeta) ==
  LET stored == IF rows[symbol].present THEN rows[symbol]
                ELSE GetDefaultSymbolMeta(symbol)
  IN  IF cache[symbol].present
      THEN [possible |-> symbolMeta = cache[symbol],
            symbolMetaRows |-> rows, cache |-> cache]
      ELSE IF ~symbolMeta.present
      THEN [possible |-> TRUE, symbolMetaRows |-> rows, cache |-> cache]
      ELSE [possible |-> symbolMeta = stored,
            symbolMetaRows |-> [rows EXCEPT ![symbol] = stored],
            cache |-> [cache EXCEPT ![symbol] = stored]]

\* the validator and the symbol master before any call of validateOrder,
\* with the given rows in the SymbolMeta table and the given cache.  accepted
\* (the accepted calls per account and minute) and last (the last call and
\* its verdict) are history.
ValidatorWith(rows, cache) ==
  [orderCounts |-> <<>>, symbolMetaRows |-> rows, cache |-> cache,
   accepted |-> <<>>, last |-> [called |-> FALSE]]

\* after construction: nothing cached, and a database with no row in the
\* SymbolMeta table
IdleValidator ==
  ValidatorWith([s \in ValidatorSymbols |-> NoMeta],
                [s \in ValidatorSymbols |-> NoMeta])

\* after initializeServices: preloadCommonSymbols has called getSymbolMeta
\* for the common symbols, which now have the given row and cache entry
PreloadedValidator(row) ==
  LET loaded == [s \in ValidatorSymbols |-> IF s \in Symbols THEN row ELSE NoMeta]
  IN  ValidatorWith(loaded, loaded)

\* a call of validateOrder: the validator afterwards.  symbolMeta is the
\* answer of getSymbolMeta (NoMeta when it throws, and when the basic checks
\* fail and it is not called).
ValidatorCall(payload, userId, symbolMeta, quote) ==
  /\ \A k \in DOMAIN validator.accepted : validator.accepted[k] < MaxValidations
  /\ \E lookup \in {IF ValidateBasicFields(payload) # {}
                      THEN [possible |-> ~symbolMeta.present,
                            symbolMetaRows |-> validator.symbolMetaRows,
                            cache |-> validator.cache]
                      ELSE GetSymbolMeta(validator.symbolMetaRows, validator.cache,
                                         payload.symbol, symbolMeta)} :
       /\ lookup.possible
       /\ \E result \in {ValidateOrderResult(payload, userId, symbolMeta, quote,
                                              UserToken, validator.orderCounts,
                                              now)} :
            LET key == MinuteKey(userId, now)
                before == IF key \in DOMAIN validator.accepted
                          THEN validator.accepted[key] ELSE 0
            IN  validator' =
                  [orderCounts |-> result.orderCounts,
                   symbolMetaRows |-> lookup.symbolMetaRows,
                   cache |-> lookup.cache,
                   accepted |->
                     IF result.isValid
                     THEN [k \in DOMAIN validator.accepted \cup {key} |->
                             IF k = key THEN before + 1
                             ELSE validator.accepted[k]]
                     ELSE validator.accepted,
                   last |-> [called |-> TRUE, payload |-> payload,
                             userId |-> userId, symbolMeta |-> symbolMeta,
                             quote |-> quote, isValid |-> result.isValid,
                             errors |-> result.errors]]

\* validateOrder called on its own, as placeOrder does before it submits
ValidateOrder(payload, userId, symbolMeta, quote) ==
  /\ ValidatorCall(payload, userId, symbolMeta, quote)
  /\ UNCHANGED <<engineVars, webhookVars>>

----------------------------------------------------------------------------
(* Chartlink webhook gate: values *)

rateLimitWindow == 60000

maxRequestsPerMinute == 600

IPs == {"10.0.0.1"}

\* userToken values of the URL: the webhook token of u1, and an unknown one
\* (deliveries without a token, which are broadcast, are not among the inputs)
WebhookTokens == {"wh-u1", "wh-unknown"}

\* user_settings.webhookToken -> userId; "" when no row has the token
UserOfToken(userToken) == IF userToken = "wh-u1" THEN "u1" ELSE ""

\* users that hold a Fyers token row
HasFyersToken(userId) == userId \in Users

\* Alert payloads (req.body).  0 and "" stand for an absent field.
PayloadA ==
  [unique_id |-> 0, symbol |-> "SBIN", side |-> "BUY", quantity |-> 100,
   order_type |-> "", product_type |-> "", stop_loss |-> 0]

PayloadB ==
  [unique_id |-> 1, symbol |-> "", side |-> "SELL", quantity |-> 100,
   order_type |-> "MARKET", product_type |-> "INTRADAY", stop_loss |-> 0]

\* a signal without a side
PayloadNoSide ==
  [unique_id |-> 2, symbol |-> "SBIN", side |-> "", quantity |-> 100,
   order_type |-> "MARKET", product_type |-> "INTRADAY", stop_loss |-> 0]

\* a signal without a quantity
PayloadNoQty ==
  [unique_id |-> 3, symbol |-> "SBIN", side |-> "BUY", quantity |-> 0,
   order_type |-> "MARKET", product_type |-> "INTRADAY", stop_loss |-> 0]

\* a signal for a Cover order with a stop-loss distance of 5
PayloadCO ==
  [unique_id |-> 4, symbol |-> "SBIN", side |-> "BUY", quantity |-> 100,
   order_type |-> "MARKET", product_type |-> "CO", stop_loss |-> 5000]

\* the signals delivered to exercise normalization and validation
SignalPayloads == {PayloadA, PayloadB, PayloadNoSide, PayloadNoQty, PayloadCO}

PayloadSeq == <<PayloadA, PayloadB>>

Payloads == {PayloadSeq[i] : i \in 1..Len(PayloadSeq)}

\* the first 16 hex digits of sha256(JSON.stringify(alertData)), taken to be
\* free of collisions: the number of the payload
Sha256Hex16(alertData) == CHOOSE i \in 1..Len(PayloadSeq) : PayloadSeq[i] = alertData

\* mutant: the key is derived from the arrival time as well
GenerateIdempotencyKeyWithTime(alertData) ==
  [kind |-> "hash", v |-> Sha256Hex16(alertData) + now]

\* generateIdempotencyKey: "chartlink_" + unique_id, or "chartlink_" + hash
GenerateIdempotencyKey(alertData) ==
  IF alertData.unique_id # 0
  THEN [kind |-> "unique_id", v |-> alertData.unique_id]
  ELSE [kind |-> "hash", v |-> Sha256Hex16(alertData)]

\* `${baseKey}:${userId}`
UserKey(baseKey, userId) == [kind |-> baseKey.kind, v |-> baseKey.v, userId |-> userId]

\* normalizeSymbol(raw, exch) with exch absent
NormalizeSymbol(raw) ==
  IF raw = "" THEN ""
  ELSE IF raw = "NSE:SBIN-EQ" THEN raw
  ELSE "NSE:" \o raw \o "-EQ"

\* mapSide: sideMap[side] || 1
MapSide(side) ==
  IF side \in {"BUY", "buy", "1"} THEN 1
  ELSE IF side \in {"SELL", "sell", "-1"} THEN 0 - 1
  ELSE 1

\* mapOrderType: typeMap[type] || 2
MapOrderType(type) ==
  IF type \in {"LIMIT", "limit", "1"} THEN 1
  ELSE IF type \in {"MARKET", "market", "2"} THEN 2
  ELSE IF type \in {"STOP", "stop", "3"} THEN 3
  ELSE IF type \in {"STOP_LIMIT", "stop_limit", "4"} THEN 4
  ELSE 2

\* mapChartlinkToOrder: the order data, with isNull set when the mapping
\* returns null (no symbol, no side or no quantity)
MapChartlinkToOrder(alertData) ==
  LET symbol == NormalizeSymbol(alertData.symbol)
      side == MapSide(alertData.side)
      qty == alertData.quantity
  IN  [isNull |-> (symbol = "" \/ side = 0 \/ qty = 0),
       symbol |-> symbol, side |-> side,
       type |-> MapOrderType(alertData.order_type),
       productType |-> IF alertData.product_type = "" THEN "INTRADAY"
                       ELSE alertData.product_type,
       qty |-> IF qty = 0 THEN Null ELSE qty,
       limitPrice |-> Null, stopPrice |-> Null,
       stopLoss |-> IF alertData.stop_loss # 0 THEN alertData.stop_loss ELSE Null,
       takeProfit |-> Null, orderTag |-> "", validity |-> "DAY",
       disclosedQty |-> 0]

\* the timestamps of a rate-limit entry are kept as a bag: timestamp -> count
BagSize(b) ==
  LET RECURSIVE Sum(_)
      Sum(S) == IF S = {} THEN 0
                ELSE LET x == CHOOSE y \in S : TRUE IN b[x] + Sum(S \ {x})
  IN  Sum(DOMAIN b)

\* requests.filter(timestamp => timestamp > windowStart)
ValidRequests(requests, windowStart) ==
  [ts \in {x \in DOMAIN requests : x > windowStart} |-> requests[ts]]

\* mutant: the limit is compared with > instead of >=
CheckRateLimitOffByOne(map, clientIP, time) ==
  LET windowStart == time - rateLimitWindow
      validRequests == ValidRequests(map[clientIP], windowStart)
  IN  IF BagSize(validRequests) > maxRequestsPerMinute
      THEN [ok |-> FALSE, map |-> map]
      ELSE [ok |-> TRUE,
            map |-> [map EXCEPT ![clientIP] =
                       [ts \in DOMAIN validRequests \cup {time} |->
                          (IF ts \in DOMAIN validRequests THEN validRequests[ts] ELSE 0)
                          + (IF ts = time THEN 1 ELSE 0)]]]

\* checkRateLimit(clientIP): [ok, map]: the verdict and the map afterwards
CheckRateLimit(map, clientIP, time) ==
  LET windowStart == time - rateLimitWindow
      validRequests == ValidRequests(map[clientIP], windowStart)
  IN  IF BagSize(validRequests) >= maxRequestsPerMinute
      THEN [ok |-> FALSE, map |-> map]
      ELSE [ok |-> TRUE,
            map |-> [map EXCEPT ![clientIP] =
                       [ts \in DOMAIN validRequests \cup {time} |->
                          (IF ts \in DOMAIN validRequests THEN validRequests[ts] ELSE 0)
                          + (IF ts = time THEN 1 ELSE 0)]]]

\* the alert row with an idempotency key: its id, or 0
FindAlert(key) ==
  IF \E a \in 1..Len(alerts) : alerts[a].idempotencyKey = key
  THEN CHOOSE a \in 1..Len(alerts) : alerts[a].idempotencyKey = key
  ELSE 0

\* mutant: the alerts table has no unique index on idempotencyKey
NoUniqueIndex(key) == FALSE

\* unique index alerts_idempotencyKey_key: an insert with this key fails
UniqueViolation(key) == FindAlert(key) # 0

DefaultStrategy == "Default Chartlink Strategy"

\* strategy.findFirst({userId, name}): its id, or 0
FindStrategy(userId, name) ==
  IF \E i \in 1..Len(strategies) :
       strategies[i].userId = userId /\ strategies[i].name = name
  THEN CHOOSE i \in 1..Len(strategies) :
         /\ strategies[i].userId = userId /\ strategies[i].name = name
         /\ \A j \in 1..(i - 1) :
              ~(strategies[j].userId = userId /\ strategies[j].name = name)
  ELSE 0

\* a response of processChartlinkAlert
Respond(req, code, alertId, status) ==
  [req EXCEPT !.pc = "done", !.code = code, !.alertId = alertId, !.status = status]

----------------------------------------------------------------------------
(* Chartlink webhook gate: processChartlinkAlert in single-user mode *)

\* the payload field of a delivery whose body could not be parsed
NoPayload ==
  [unique_id |-> 0, symbol |-> "", side |-> "", quantity |-> 0,
   order_type |-> "", product_type |-> "", stop_loss |-> 0]

\* a delivery arrives whose body is empty or neither JSON nor key=value
\* pairs: alertData is null and 400 is sent before the rate limiter runs
DeliverMalformed(userToken, clientIP) ==
  /\ Len(reqs) < MaxRequests
  /\ reqs' = Append(reqs,
               [pc |-> "done", payload |-> NoPayload, userToken |-> userToken,
                userId |-> "", key |-> UserKey(GenerateIdempotencyKey(PayloadB), ""),
                strategyId |-> 0, code |-> 400, alertId |-> 0, status |-> "",
                at |-> now])
  /\ UNCHANGED <<engineVars, alerts, strategies, tasks, rateLimitMap, now,
                 validator>>

\* mutant: the alert is recorded and its processing started before the
\* webhook token is checked
DeliverQueueFirst(alertData, userToken, clientIP) ==
  /\ Len(reqs) < MaxRequests
  /\ LET rl == CheckRateLimit(rateLimitMap, clientIP, now)
         baseKey == GenerateIdempotencyKey(alertData)
         userId == UserOfToken(userToken)
         req == [pc |-> "findAlert", payload |-> alertData, userToken |-> userToken,
                 userId |-> userId, key |-> UserKey(baseKey, userId),
                 strategyId |-> 0, code |-> 0, alertId |-> 0, status |-> "",
                 at |-> now]
     IN  /\ rateLimitMap' = rl.map
         /\ reqs' = Append(reqs,
                      IF ~rl.ok THEN Respond(req, 429, 0, "")
                      ELSE IF userId = "" THEN Respond(req, 401, 0, "")
                      ELSE req)
         /\ IF rl.ok /\ userId = ""
            THEN /\ alerts' = Append(alerts,
                                [userId |-> userId, strategyId |-> 0,
                                 rawPayload |-> alertData,
                                 idempotencyKey |-> UserKey(baseKey, userId),
                                 status |-> "pending"])
                 /\ tasks' = Append(tasks,
                               [pc |-> "rejectAlert", alertId |-> Len(alerts) + 1,
                                userId |-> userId, orderId |-> 0,
                                verdict |-> "none"])
            ELSE UNCHANGED <<alerts, tasks>>
  /\ UNCHANGED <<engineVars, strategies, now, validator>>

\* a delivery arrives: body check, rate limit, key, and the lookup of the
\* webhook token (user_settings is not written by the pipeline)
Deliver(alertData, userToken, clientIP) ==
  /\ Len(reqs) < MaxRequests
  /\ LET rl == CheckRateLimit(rateLimitMap, clientIP, now)
         baseKey == GenerateIdempotencyKey(alertData)
         userId == UserOfToken(userToken)
         req == [pc |-> "findAlert", payload |-> alertData, userToken |-> userToken,
                 userId |-> userId, key |-> UserKey(baseKey, userId),
                 strategyId |-> 0, code |-> 0, alertId |-> 0, status |-> "",
                 at |-> now]
     IN  /\ rateLimitMap' = rl.map
         /\ reqs' = Append(reqs,
                      IF ~rl.ok THEN Respond(req, 429, 0, "")
                      ELSE IF userId = "" THEN Respond(req, 401, 0, "")
                      ELSE req)
  /\ UNCHANGED <<engineVars, alerts, strategies, tasks, now, validator>>

\* prisma.alert.findUnique({idempotencyKey}) and the duplicate response
RequestFindAlert(r) ==
  /\ reqs[r].pc = "findAlert"
  /\ LET existingAlert == FindAlert(reqs[r].key)
     IN  reqs' = [reqs EXCEPT ![r] =
                    IF existingAlert # 0
                    THEN Respond(@, 200, existingAlert, alerts[existingAlert].status)
                    ELSE [@ EXCEPT !.pc = "findStrategy"]]
  /\ UNCHANGED <<engineVars, alerts, strategies, tasks, rateLimitMap, now, validator>>

\* createAlert: strategy.findFirst
RequestFindStrategy(r) ==
  /\ reqs[r].pc = "findStrategy"
  /\ LET strategy == FindStrategy(reqs[r].userId, DefaultStrategy)
     IN  reqs' = [reqs EXCEPT ![r] =
                    IF strategy # 0
                    THEN [@ EXCEPT !.pc = "createAlert", !.strategyId = strategy]
                    ELSE [@ EXCEPT !.pc = "createStrategy"]]
  /\ UNCHANGED <<engineVars, alerts, strategies, tasks, rateLimitMap, now, validator>>

\* createAlert: strategy.create
RequestCreateStrategy(r) ==
  /\ reqs[r].pc = "createStrategy"
  /\ strategies' = Append(strategies,
                     [userId |-> reqs[r].userId, name |-> DefaultStrategy])
  /\ reqs' = [reqs EXCEPT ![r].pc = "createAlert",
                          ![r].strategyId = Len(strategies) + 1]
  /\ UNCHANGED <<engineVars, alerts, tasks, rateLimitMap, now, validator>>

\* createAlert: alert.create.  On success processAlertAsync is started (it
\* runs mapChartlinkToOrder up to its first await) and 200 is sent; a unique
\* violation is thrown to the catch block of processChartlinkAlert: 500
RequestCreateAlert(r) ==
  /\ reqs[r].pc = "createAlert"
  /\ IF UniqueViolation(reqs[r].key)
     THEN /\ reqs' = [reqs EXCEPT ![r] = Respond(@, 500, 0, "")]
          /\ UNCHANGED <<alerts, tasks>>
     ELSE LET alertId == Len(alerts) + 1
              orderData == MapChartlinkToOrder(reqs[r].payload)
          IN  /\ alerts' = Append(alerts,
                             [userId |-> reqs[r].userId,
                              strategyId |-> reqs[r].strategyId,
                              rawPayload |-> reqs[r].payload,
                              idempotencyKey |-> reqs[r].key,
                              status |-> "pending"])
              /\ tasks' = Append(tasks,
                            [pc |-> IF orderData.isNull THEN "rejectAlert"
                                    ELSE "findUser",
                             alertId |-> alertId, userId |-> reqs[r].userId,
                             orderId |-> 0, verdict |-> "none"])
              /\ reqs' = [reqs EXCEPT ![r] = Respond(@, 200, alertId, "pending")]
  /\ UNCHANGED <<engineVars, strategies, rateLimitMap, now, validator>>

\* the clock advances
AdvanceClock ==
  /\ now < MaxTime * ClockStep
  /\ now' = now + ClockStep
  /\ UNCHANGED <<engineVars, alerts, strategies, reqs, tasks, rateLimitMap,
                 validator>>

----------------------------------------------------------------------------
(* Chartlink webhook gate: processAlertAsync *)

\* user.findUnique with the Fyers tokens; then processOrderForUser starts
TaskFindUser(k) ==
  /\ tasks[k].pc = "findUser"
  /\ tasks' = [tasks EXCEPT ![k].pc =
                 IF HasFyersToken(tasks[k].userId) THEN "validate" ELSE "rejectAlert"]
  /\ UNCHANGED <<engineVars, alerts, strategies, reqs, rateLimitMap, now, validator>>

\* processOrderForUser: validateOrder, with the symbol metadata and the
\* quote the providers answer with.  On rejection processOrderForUser
\* returns, and processAlertAsync goes on to mark the alert processed.
\* verdict is history.
TaskValidate(k) ==
  /\ tasks[k].pc = "validate"
  /\ \E symbolMeta \in Metas, quote \in WebhookQuotes :
       ValidatorCall(MapChartlinkToOrder(alerts[tasks[k].alertId].rawPayload),
                     tasks[k].userId, symbolMeta, quote)
  /\ tasks' = [tasks EXCEPT
                 ![k].pc = IF validator'.last.isValid THEN "submit"
                           ELSE "markProcessed",
                 ![k].verdict = IF validator'.last.isValid THEN "valid"
                                ELSE "invalid"]
  /\ UNCHANGED <<engineVars, alerts, strategies, reqs, rateLimitMap, now>>

\* processOrderForUser: paperEngine.submitOrder
TaskSubmit(k) ==
  /\ tasks[k].pc = "submit"
  /\ LET orderData == MapChartlinkToOrder(alerts[tasks[k].alertId].rawPayload)
     IN  SubmitCreate(orderData, tasks[k].userId, orderData.symbol, k)
  /\ tasks' = [tasks EXCEPT ![k].pc = "awaitSubmit"]
  /\ UNCHANGED <<executions, positions, portfolios, pnl, isProcessing, timer,
                 cycle, canc, alerts, strategies, reqs, rateLimitMap, now,
                 validator>>

\* submitOrder has returned the order: updateAlertStatus(alertId, 'processed',
\* order.id), the alert.update
TaskLinkAlert(k) ==
  /\ tasks[k].pc = "awaitSubmit"
  /\ proc["submit"].pc = "ret"
  /\ proc["submit"].caller = k
  /\ alerts' = [alerts EXCEPT ![tasks[k].alertId].status = "processed"]
  /\ tasks' = [tasks EXCEPT ![k].pc = "linkOrder", ![k].orderId = proc["submit"].orderId]
  /\ proc' = [proc EXCEPT !["submit"] = IdleProc]
  /\ UNCHANGED <<orders, executions, positions, portfolios, pnl, isProcessing,
                 timer, cycle, canc, strategies, reqs, rateLimitMap, now,
                 validator>>

\* updateAlertStatus(alertId, 'processed', order.id): the order.update
TaskLinkOrder(k) ==
  /\ tasks[k].pc = "linkOrder"
  /\ orders' = [orders EXCEPT ![tasks[k].orderId].alertId = tasks[k].alertId]
  /\ tasks' = [tasks EXCEPT ![k].pc = "markProcessed"]
  /\ UNCHANGED <<executions, positions, portfolios, pnl, isProcessing, timer,
                 cycle, proc, canc, alerts, strategies, reqs, rateLimitMap,
                 now, validator>>

\* processAlertAsync: updateAlertStatus(alertId, 'processed')
TaskMarkProcessed(k) ==
  /\ tasks[k].pc = "markProcessed"
  /\ alerts' = [alerts EXCEPT ![tasks[k].alertId].status = "processed"]
  /\ tasks' = [tasks EXCEPT ![k].pc = "done"]
  /\ UNCHANGED <<engineVars, strategies, reqs, rateLimitMap, now, validator>>

\* rejectAlert
TaskRejectAlert(k) ==
  /\ tasks[k].pc = "rejectAlert"
  /\ alerts' = [alerts EXCEPT ![tasks[k].alertId].status = "rejected"]
  /\ tasks' = [tasks EXCEPT ![k].pc = "done"]
  /\ UNCHANGED <<engineVars, strategies, reqs, rateLimitMap, now, validator>>

----------------------------------------------------------------------------
(* Specification of the engine *)

Init ==
  /\ orders = <<>>
  /\ executions = <<>>
  /\ positions = [k \in PosKeys |-> NoPos]
  /\ portfolios = [u \in Users |-> NoPortfolio]
  /\ pnl = IdlePnl
  /\ isProcessing = FALSE
  /\ timer = StartedTimer
  /\ cycle = IdleCycle
  /\ proc = [t \in Threads |-> IdleProc]
  /\ canc = IdleCanc
  /\ alerts = <<>>
  /\ strategies = <<>>
  /\ reqs = <<>>
  /\ tasks = <<>>
  /\ rateLimitMap = [ip \in IPs |-> <<>>]
  /\ now = 0
  /\ validator = IdleValidator

Next ==
  \/ SubmitOrder(EngineInputs)
  \/ SubmitLogged
  \/ \E t \in Threads : ProcessOrderFind(t)
  \/ \E t \in Threads : ProcessOrderToWorking(t)
  \/ \E t \in Threads : ProcessOrderSimulate(t, WebhookQuotes)
  \/ \E t \in Threads : FillOrder(t)
  \/ \E t \in Threads : FillOrderFault(t)
  \/ \E t \in Threads : RejectOrder(t)
  \/ Tick
  \/ CancelOrderFind
  \/ CancelOrderUpdate

Spec == Init /\ [][Next]_vars

\* the market orders submitted to exercise the fill-price simulation
MarketInputs == {MarketOrder(1, 100), MarketOrder(0 - 1, 100)}

\* Orders submitted and processed one after the other, without the timer and
\* without cancellations: the fills that reach the position rows
NextPositions ==
  \/ SubmitOrder(PositionInputs)
  \/ SubmitLogged
  \/ ProcessOrderFind("submit")
  \/ ProcessOrderToWorking("submit")
  \/ ProcessOrderSimulate("submit", QuoteSet)
  \/ FillOrder("submit")
  \/ FillOrderFault("submit")
  \/ RejectOrder("submit")

SpecPositions == Init /\ [][NextPositions]_vars

\* GET /api/positions recomputes the account's P&L, again and again, while
\* market orders are submitted and filled; the quotes carry a last traded
\* price, carry none, or lack the symbol
NextPnL ==
  \/ SubmitOrder(MarketInputs)
  \/ SubmitLogged
  \/ ProcessOrderFind("submit")
  \/ ProcessOrderToWorking("submit")
  \/ ProcessOrderSimulate("submit", {Quote100})
  \/ FillOrder("submit")
  \/ \E userId \in Users : CalculatePortfolioPnL(userId)
  \/ PnLQuotes(QuoteSet \cup {QuoteNoLtp, NoQuote})
  \/ PnLQuotesFault
  \/ PnLUpdate
  \/ PnLUpsert

SpecPnL == Init /\ [][NextPnL]_vars

\* Market orders are submitted one after the other while the provider
\* answers with complete quotes, with no data, or with a field missing
NextMarketData ==
  \/ SubmitOrder(MarketInputs)
  \/ SubmitLogged
  \/ ProcessOrderFind("submit")
  \/ ProcessOrderToWorking("submit")
  \/ ProcessOrderSimulate("submit", AllQuotes)
  \/ FillOrder("submit")
  \/ RejectOrder("submit")

SpecMarketData == Init /\ [][NextMarketData]_vars

\* Orders of every kind are submitted while processOrders runs, called by the
\* timer (without an access token) or with the access token of the account
NextFills ==
  \/ SubmitOrder(FillInputs)
  \/ SubmitLogged
  \/ \E t \in Threads : ProcessOrderFind(t)
  \/ \E t \in Threads : ProcessOrderToWorking(t)
  \/ \E t \in Threads : ProcessOrderSimulate(t, QuoteSet)
  \/ \E t \in Threads : FillOrder(t)
  \/ \E t \in Threads : RejectOrder(t)
  \/ \E accessToken \in {NoToken, UserToken} : ProcessOrders(accessToken)

SpecFills == Init /\ [][NextFills]_vars

\* the orders submitted while the database fails now and then
FaultInputs == {MarketOrder(1, 100), LimitOrder(1, 105000)}

\* The timer keeps ticking while orders are submitted and calls of the
\* database fail: the order query of a cycle, the reads and writes of
\* processOrder, the transaction of fillOrder, the update of rejectOrder
NextFaults ==
  \/ SubmitOrder(FaultInputs)
  \/ SubmitLogged
  \/ \E t \in Threads : ProcessOrderFind(t)
  \/ \E t \in Threads : ProcessOrderToWorking(t)
  \/ \E t \in Threads : ProcessOrderSimulate(t, WebhookQuotes)
  \/ \E t \in Threads : FillOrder(t)
  \/ \E t \in Threads : FillOrderFault(t)
  \/ \E t \in Threads : RejectOrder(t)
  \/ Tick
  \/ ProcessOrdersQuery
  \/ ProcessOrdersQueryFault
  \/ ProcessOrderFault
  \/ RejectOrderFault

SpecFaults == Init /\ [][NextFaults]_vars

\* The engine is stopped and started again and again while orders are
\* submitted and the live timers tick
NextStartStop ==
  \/ Start
  \/ Stop
  \/ TimerTick
  \/ SubmitOrder(FaultInputs)
  \/ SubmitLogged
  \/ \E t \in Threads : ProcessOrderFind(t)
  \/ \E t \in Threads : ProcessOrderToWorking(t)
  \/ \E t \in Threads : ProcessOrderSimulate(t, WebhookQuotes)
  \/ \E t \in Threads : FillOrder(t)
  \/ \E t \in Threads : RejectOrder(t)

SpecStartStop == Init /\ [][NextStartStop]_vars

\* the steps of the background cycle on resting orders while the provider
\* has the quote at 100 for every call
TimerSteps ==
  \/ Tick
  \/ ProcessOrderFind("cycle")
  \/ ProcessOrderToWorking("cycle")
  \/ ProcessOrderSimulate("cycle", {Quote100})

\* Resting orders that the market makes fillable are submitted while the
\* timer started by start() keeps ticking and its cycles keep running
NextTimer ==
  \/ SubmitOrder(FillableInputs)
  \/ SubmitLogged
  \/ TimerSteps

SpecTimer ==
  /\ Init
  /\ [][NextTimer]_vars
  /\ WF_vars(SubmitLogged)
  /\ WF_vars(TimerSteps)

\* Cover and Bracket orders are submitted while the timer runs: the children
\* spawned by a fill are picked up by the background cycle
NextBracket ==
  \/ SubmitOrder(BracketInputs)
  \/ SubmitLogged
  \/ \E t \in Threads : ProcessOrderFind(t)
  \/ \E t \in Threads : ProcessOrderToWorking(t)
  \/ \E t \in Threads : ProcessOrderSimulate(t, QuoteSet)
  \/ \E t \in Threads : FillOrder(t)
  \/ \E t \in Threads : FillOrderFault(t)
  \/ \E t \in Threads : RejectOrder(t)
  \/ Tick

SpecBracket == Init /\ [][NextBracket]_vars

\* Bracket orders are bought while processOrders runs, called by the timer
\* (without an access token) or with the access token of the account, so
\* that the children meet market data
NextChildren ==
  \/ SubmitOrder({BracketOrder})
  \/ SubmitLogged
  \/ \E t \in Threads : ProcessOrderFind(t)
  \/ \E t \in Threads : ProcessOrderToWorking(t)
  \/ \E t \in Threads : ProcessOrderSimulate(t, {Quote100})
  \/ \E t \in Threads : FillOrder(t)
  \/ \E t \in Threads : RejectOrder(t)
  \/ \E accessToken \in {NoToken, UserToken} : ProcessOrders(accessToken)

SpecChildren == Init /\ [][NextChildren]_vars

----------------------------------------------------------------------------
(* Specification of the validator *)

\* a Bracket payload: a sell of 25 with the given kind and prices
BracketPayload(type, stopPrice, stopLoss, takeProfit) ==
  [OrderPayload("NSE:SBIN-EQ", 0 - 1, type, "BO", 25, Null, stopLoss)
     EXCEPT !.stopPrice = stopPrice, !.takeProfit = takeProfit]

\* Bracket and Cover payloads of other kinds: a market Bracket order, a stop
\* Bracket order and a stop Cover order
BracketInputsOfValidator ==
  {BracketPayload(2, Null, 5000, 5000),
   BracketPayload(3, 95000, 5000, 5000),
   [OrderPayload("NSE:SBIN-EQ", 0 - 1, 3, "CO", 25, Null, 5000)
      EXCEPT !.stopPrice = 95000]}

\* orders of 20000 shares at about 100 rupees, twice the notional ceiling:
\* a limit order, a market order and a buy stop order
RiskInputs ==
  {OrderPayload("NSE:SBIN-EQ", 1, 1, "INTRADAY", 20000, 100050, Null),
   OrderPayload("NSE:SBIN-EQ", 1, 2, "INTRADAY", 20000, Null, Null),
   [OrderPayload("NSE:SBIN-EQ", 1, 3, "INTRADAY", 20000, Null, Null)
      EXCEPT !.stopPrice = 100000]}

\* the payloads validateOrder is called with: market and limit orders with
\* prices on and off the tick grid, quantities on and off the lot grid,
\* Cover orders with and without a stop-loss, and a malformed symbol
ValidatorInputs ==
  {OrderPayload("NSE:SBIN-EQ", 1, 2, "INTRADAY", 25, Null, Null),
   OrderPayload("NSE:SBIN-EQ", 1, 2, "INTRADAY", 30, Null, Null),
   OrderPayload("NSE:SBIN-EQ", 1, 1, "INTRADAY", 25, 100050, Null),
   OrderPayload("NSE:SBIN-EQ", 1, 1, "INTRADAY", 25, 100030, Null),
   OrderPayload("NSE:SBIN-EQ", 1, 1, "INTRADAY", 25, 0 - 100030, Null),
   OrderPayload("NSE:SBIN-EQ", 0 - 1, 2, "CO", 25, Null, 5000),
   OrderPayload("NSE:SBIN-EQ", 0 - 1, 2, "CO", 25, Null, 5030),
   OrderPayload("NSE:SBIN-EQ", 0 - 1, 2, "CO", 25, Null, Null),
   OrderPayload("SBIN", 1, 2, "INTRADAY", 25, Null, Null),
   OrderPayload(OtherSymbol, 1, 2, "INTRADAY", 25, Null, Null)}
  \cup BracketInputsOfValidator \cup RiskInputs

\* validateOrder is called again and again while the clock advances
NextValidator ==
  \/ \E payload \in ValidatorInputs, userId \in Users, symbolMeta \in Metas,
        quote \in WebhookQuotes :
       ValidateOrder(payload, userId, symbolMeta, quote)
  \/ AdvanceClock

\* the state after initializeServices: the common symbol is loaded, with the
\* default metadata or with the row found in the database
InitValidator ==
  /\ orders = <<>>
  /\ executions = <<>>
  /\ positions = [k \in PosKeys |-> NoPos]
  /\ portfolios = [u \in Users |-> NoPortfolio]
  /\ pnl = IdlePnl
  /\ isProcessing = FALSE
  /\ timer = StartedTimer
  /\ cycle = IdleCycle
  /\ proc = [t \in Threads |-> IdleProc]
  /\ canc = IdleCanc
  /\ alerts = <<>>
  /\ strategies = <<>>
  /\ reqs = <<>>
  /\ tasks = <<>>
  /\ rateLimitMap = [ip \in IPs |-> <<>>]
  /\ now = 0
  /\ \E row \in {MetaEQ, MetaFUT} : validator = PreloadedValidator(row)

SpecValidator == InitValidator /\ [][NextValidator]_vars

----------------------------------------------------------------------------
(* Specifications of the webhook gate *)

\* Before the deliveries of the model the client has already made `prior`
\* requests at time 0, all refused with 401 (counted by the rate limiter,
\* which runs before the token check, and leaving no alert)
InitWebhook(priors) ==
  /\ orders = <<>>
  /\ executions = <<>>
  /\ positions = [k \in PosKeys |-> NoPos]
  /\ portfolios = [u \in Users |-> NoPortfolio]
  /\ pnl = IdlePnl
  /\ isProcessing = FALSE
  /\ timer = StartedTimer
  /\ cycle = IdleCycle
  /\ proc = [t \in Threads |-> IdleProc]
  /\ canc = IdleCanc
  /\ alerts = <<>>
  /\ strategies = <<>>
  /\ reqs = <<>>
  /\ tasks = <<>>
  /\ \E prior \in priors :
       rateLimitMap = [ip \in IPs |-> IF prior = 0 THEN <<>> ELSE (0 :> prior)]
  /\ now = 0
  /\ validator = IdleValidator

\* the steps of the requests after their arrival, and of the alert tasks
WebhookSteps ==
  \/ \E r \in 1..Len(reqs) : RequestFindAlert(r)
  \/ \E r \in 1..Len(reqs) : RequestFindStrategy(r)
  \/ \E r \in 1..Len(reqs) : RequestCreateStrategy(r)
  \/ \E r \in 1..Len(reqs) : RequestCreateAlert(r)
  \/ \E k \in 1..Len(tasks) : TaskFindUser(k)
  \/ \E k \in 1..Len(tasks) : TaskValidate(k)
  \/ \E k \in 1..Len(tasks) : TaskSubmit(k)
  \/ \E k \in 1..Len(tasks) : TaskLinkAlert(k)
  \/ \E k \in 1..Len(tasks) : TaskLinkOrder(k)
  \/ \E k \in 1..Len(tasks) : TaskMarkProcessed(k)
  \/ \E k \in 1..Len(tasks) : TaskRejectAlert(k)
  \/ SubmitLogged
  \/ ProcessOrderFind("submit")
  \/ ProcessOrderToWorking("submit")
  \/ ProcessOrderSimulate("submit", WebhookQuotes)
  \/ FillOrder("submit")
  \/ RejectOrder("submit")

InFlight == {r \in 1..Len(reqs) : reqs[r].pc # "done"}

\* deliveries overlap
NextWebhook ==
  \/ \E alertData \in Payloads, userToken \in WebhookTokens, clientIP \in IPs :
       /\ Cardinality(InFlight) < MaxInFlight
       /\ Deliver(alertData, userToken, clientIP)
  \/ WebhookSteps

SpecWebhook == InitWebhook({0}) /\ [][NextWebhook]_vars

\* deliveries in sequence: the client sends the next one after the response
NextWebhookSeq ==
  \/ \E alertData \in Payloads, userToken \in WebhookTokens, clientIP \in IPs :
       /\ InFlight = {}
       /\ Deliver(alertData, userToken, clientIP)
  \/ WebhookSteps
  \/ AdvanceClock

SpecWebhookSeq ==
  InitWebhook({0, maxRequestsPerMinute - 2}) /\ [][NextWebhookSeq]_vars

\* the requests the client of SpecRateLimit has made at time 0 before the
\* deliveries: two short of the limit
PriorRequests == maxRequestsPerMinute - 2

\* signals with and without their required fields, delivered in sequence to
\* the webhook of an account
NextSignals ==
  \/ \E alertData \in SignalPayloads, clientIP \in IPs :
       /\ InFlight = {}
       /\ Deliver(alertData, "wh-u1", clientIP)
  \/ WebhookSteps

SpecSignals == InitWebhook({0}) /\ [][NextSignals]_vars

\* overlapping deliveries of one signal from a client that is two requests
\* short of the limit, while the clock advances.  The signal is the one
\* without a symbol, whose alert is rejected by processAlertAsync at once,
\* so these are all the steps its deliveries can take.
NextRateLimit ==
  \/ \E userToken \in WebhookTokens, clientIP \in IPs :
       /\ Cardinality(InFlight) < MaxInFlight
       /\ Deliver(PayloadB, userToken, clientIP)
  \/ \E r \in 1..Len(reqs) : RequestFindAlert(r)
  \/ \E r \in 1..Len(reqs) : RequestFindStrategy(r)
  \/ \E r \in 1..Len(reqs) : RequestCreateStrategy(r)
  \/ \E r \in 1..Len(reqs) : RequestCreateAlert(r)
  \/ \E k \in 1..Len(tasks) : TaskRejectAlert(k)
  \/ AdvanceClock

SpecRateLimit == InitWebhook({PriorRequests}) /\ [][NextRateLimit]_vars

\* deliveries with a well-formed and with an unparseable body, with a known
\* and with an unknown token, from a client that has made no request before
\* or is one request short of the limit
NextIngestion ==
  \/ \E userToken \in WebhookTokens, clientIP \in IPs :
       /\ Cardinality(InFlight) < MaxInFlight
       /\ Deliver(PayloadB, userToken, clientIP)
  \/ \E userToken \in WebhookTokens, clientIP \in IPs :
       DeliverMalformed(userToken, clientIP)
  \/ \E r \in 1..Len(reqs) : RequestFindAlert(r)
  \/ \E r \in 1..Len(reqs) : RequestFindStrategy(r)
  \/ \E r \in 1..Len(reqs) : RequestCreateStrategy(r)
  \/ \E r \in 1..Len(reqs) : RequestCreateAlert(r)
  \/ \E k \in 1..Len(tasks) : TaskRejectAlert(k)

SpecIngestion ==
  InitWebhook({0, maxRequestsPerMinute - 1}) /\ [][NextIngestion]_vars

----------------------------------------------------------------------------
(* Properties of the paper trading engine *)

OrderIds == 1..Len(orders)

ExecutionsOf(orderId) ==
  {e \in 1..Len(executions) : executions[e].orderId = orderId}

ChildrenOf(orderId) == {i \in OrderIds : orders[i].parent = orderId}

\* executions of the paper orders of one (userId, symbol)
ExecutionsAt(k) ==
  {e \in 1..Len(executions) :
     /\ orders[executions[e].orderId].userId = k[1]
     /\ executions[e].symbol = k[2]}

\* what an execution contributes to a sum: its signed quantity, its
\* quantity, or its value (quantity * price)
Contribution(e, what) ==
  IF what = "signedQty" THEN executions[e].side * executions[e].qty
  ELSE IF what = "qty" THEN executions[e].qty
  ELSE executions[e].qty * executions[e].price

RECURSIVE SumOver(_, _)
SumOver(S, what) ==
  IF S = {} THEN 0
  ELSE LET x == CHOOSE y \in S : TRUE
       IN  Contribution(x, what) + SumOver(S \ {x}, what)

\* C1: no paper order ever leaves a terminal state: once an order's state is
\* filled, cancelled or rejected, no step changes it
C1_TerminalStatesAbsorbing ==
  [][\A i \in OrderIds :
       orders[i].state \in TerminalStates => orders'[i].state = orders[i].state]_vars

\* C5: every paper order has at most one execution, and that execution's
\* quantity is the order's full quantity
C5_AtMostOneExecution ==
  \A i \in OrderIds :
    /\ Cardinality(ExecutionsOf(i)) <= 1
    /\ \A e \in ExecutionsOf(i) : executions[e].qty = orders[i].qty

\* C5 witness: an order that submitOrder's own processOrder call has filled is
\* at the same moment being processed by the background cycle
C5_Witness ==
  \E i \in OrderIds :
    /\ ExecutionsOf(i) # {}
    /\ proc["cycle"].orderId = i
    /\ proc["cycle"].pc \in {"toWorking", "simulate"}

\* C6: the position quantity of every (account, symbol) equals the sum of
\* side * qty over the account's paper executions for that symbol (0 when
\* there is no position row)
C6_PositionQtyIsSignedSum ==
  \A k \in PosKeys : positions[k].qty = SumOver(ExecutionsAt(k), "signedQty")

\* C7: no position row exists when the signed fill quantities of its key sum
\* to zero, and a row exists whenever the running signed sum is nonzero
C7_RowIffNonzeroSum ==
  \A k \in PosKeys :
    positions[k].exists <=> SumOver(ExecutionsAt(k), "signedQty") # 0

\* C8: after fills that are all on the same side, the position quantity is
\* the (signed) sum of the fill quantities and avgPrice is the
\* quantity-weighted mean of the fill prices
C8_SameSideAverage ==
  \A k \in PosKeys :
    LET E == ExecutionsAt(k)
    IN  (E # {} /\ \A e1, e2 \in E : executions[e1].side = executions[e2].side)
        => /\ positions[k].exists
           /\ positions[k].qty = SumOver(E, "signedQty")
           /\ positions[k].avgPrice = Frac(SumOver(E, "value"), SumOver(E, "qty"))

\* C9: fill finalization is all-or-nothing: for every paper order either its
\* execution, its state filled and (for a CO/BO order) its child orders are
\* all present, or none of them is
C9_FillAllOrNothing ==
  \A i \in OrderIds :
    \/ /\ ExecutionsOf(i) # {}
       /\ orders[i].state = "filled"
       /\ Cardinality(ChildrenOf(i)) = NumChildren(orders[i].productType)
    \/ /\ ExecutionsOf(i) = {}
       /\ orders[i].state # "filled"
       /\ ChildrenOf(i) = {}

\* C10: the step processOrder takes after a failed fill transaction leaves
\* the order in its pre-fill state; the failure moves it to no terminal state
C10_FaultKeepsOrderWorking ==
  [][\A t \in Threads :
       (proc[t].pc = "reject" /\ proc[t].reason = "error" /\ proc'[t] # proc[t])
         => /\ orders'[proc[t].orderId].state = orders[proc[t].orderId].state
            /\ orders'[proc[t].orderId].state \notin TerminalStates]_vars

----------------------------------------------------------------------------
(* Properties of the webhook gate *)

ReqIds == 1..Len(reqs)

AlertIds == 1..Len(alerts)

\* the answered deliveries of a payload to the webhook token of an account
Answered(alertData, userId) ==
  {r \in ReqIds : /\ reqs[r].payload = alertData
                  /\ reqs[r].userId = userId
                  /\ reqs[r].pc = "done"}

\* the Alert rows of a payload and an account
AlertsOf(alertData, userId) ==
  {a \in AlertIds : alerts[a].rawPayload = alertData /\ alerts[a].userId = userId}

\* the Order rows submitted by the processing of a set of alerts
OrdersOfAlerts(A) ==
  {i \in OrderIds :
     \E k \in 1..Len(tasks) :
       /\ tasks[k].alertId \in A
       /\ \/ tasks[k].orderId = i
          \/ /\ tasks[k].pc = "awaitSubmit"
             /\ proc["submit"].caller = k
             /\ proc["submit"].orderId = i}

\* the deliveries of one key that found no alert in the lookup and went on
\* to createAlert
PastLookup(key) ==
  {r \in ReqIds : /\ reqs[r].key = key
                  /\ reqs[r].userId \in Users
                  /\ \/ reqs[r].pc \in {"findStrategy", "createStrategy", "createAlert"}
                     \/ reqs[r].pc = "done" /\ reqs[r].code = 500
                     \/ reqs[r].pc = "done" /\ reqs[r].status = "pending"}

C3_AtMostOneAlertPerKey ==
  \A a \in AlertIds :
    /\ \A b \in AlertIds : alerts[b].idempotencyKey = alerts[a].idempotencyKey => b = a
    /\ Cardinality({k \in 1..Len(tasks) : tasks[k].alertId = a}) <= 1

\* C3 witness: two deliveries of one key both ran the lookup before either
\* created the alert, and both have run createAlert
C3_Witness ==
  \E r1, r2 \in ReqIds :
    /\ r1 # r2
    /\ reqs[r1].key = reqs[r2].key
    /\ {r1, r2} \subseteq PastLookup(reqs[r1].key)
    /\ reqs[r1].pc = "done" /\ reqs[r2].pc = "done"
    /\ Cardinality({a \in AlertIds : alerts[a].idempotencyKey = reqs[r1].key}) = 1

\* C4: every answered delivery to a known account is answered 200 with the
\* id of the Alert row of its key
C4_DuplicateAnswered200 ==
  \A r \in ReqIds :
    (reqs[r].pc = "done" /\ reqs[r].userId \in Users) =>
      /\ reqs[r].code = 200
      /\ reqs[r].alertId # 0
      /\ reqs[r].alertId = FindAlert(reqs[r].key)

----------------------------------------------------------------------------
(* Properties of the Cover and Bracket children *)

\* the stop-loss children of an order: market type carrying a stop price
StopLossChildren(i) ==
  {c \in ChildrenOf(i) : /\ orders[c].type = 2
                         /\ orders[c].stopPrice # Null
                         /\ orders[c].limitPrice = Null}

\* the take-profit children of an order: limit type carrying a limit price
TakeProfitChildren(i) ==
  {c \in ChildrenOf(i) : /\ orders[c].type = 1
                         /\ orders[c].limitPrice # Null
                         /\ orders[c].stopPrice = Null}

\* C11: a filled Bracket order has exactly two children, one stop-loss and
\* one take-profit, a filled Cover order exactly one (a stop-loss); every
\* child has the opposite side and the quantity of its parent; and the
\* children are in state new in the state the fill produces
C11_BracketCompleteness ==
  /\ [](\A i \in OrderIds :
          orders[i].state = "filled" =>
            /\ orders[i].productType = "BO" =>
                 /\ Cardinality(ChildrenOf(i)) = 2
                 /\ Cardinality(StopLossChildren(i)) = 1
                 /\ Cardinality(TakeProfitChildren(i)) = 1
            /\ orders[i].productType = "CO" =>
                 /\ Cardinality(ChildrenOf(i)) = 1
                 /\ Cardinality(StopLossChildren(i)) = 1
            /\ \A c \in ChildrenOf(i) :
                 /\ orders[c].side = 0 - orders[i].side
                 /\ orders[c].qty = orders[i].qty)
  /\ [][\A i \in OrderIds :
          (orders[i].state # "filled" /\ orders'[i].state = "filled") =>
            \A c \in (Len(orders) + 1)..Len(orders') :
              orders'[c].parent = i /\ orders'[c].state = "new"]_vars

\* C11 witness: a filled Bracket order with its two children, one of which
\* the background cycle has already taken out of state new, next to a filled
\* Cover order with its one child
C11_Witness ==
  \E i, j \in OrderIds :
    /\ orders[i].productType = "BO" /\ orders[i].state = "filled"
    /\ Cardinality(ChildrenOf(i)) = 2
    /\ \E c \in ChildrenOf(i) : orders[c].state # "new"
    /\ orders[j].productType = "CO" /\ orders[j].state = "filled"
    /\ Cardinality(ChildrenOf(j)) = 1

\* C12: the child of a filled Cover order has the opposite side, a stop
\* price of fillPrice - parent.side * parent.stopLoss (fillPrice being the
\* price of the parent's execution), product type INTRADAY and market type
C12_CoverChild ==
  \A i \in OrderIds :
    orders[i].productType = "CO" =>
      \A c \in ChildrenOf(i) :
        /\ orders[c].side = 0 - orders[i].side
        /\ orders[c].productType = "INTRADAY"
        /\ orders[c].type = 2
        /\ \E e \in ExecutionsOf(i) :
             orders[c].stopPrice =
               executions[e].price - orders[i].side * orders[i].stopLoss

\* C12 witness: a buy Cover order with stopLoss 5 filled at 100 has a sell
\* child with stop price 95, and a sell Cover order has a buy child with its
\* stop above the fill
C12_Witness ==
  /\ \E i \in OrderIds :
       /\ orders[i].productType = "CO" /\ orders[i].side = 1
       /\ orders[i].stopLoss = 5000
       /\ \E e \in ExecutionsOf(i) : executions[e].price = 100000
       /\ \E c \in ChildrenOf(i) : orders[c].side = 0 - 1 /\ orders[c].stopPrice = 95000
  /\ \E i \in OrderIds :
       /\ orders[i].productType = "CO" /\ orders[i].side = 0 - 1
       /\ \E c \in ChildrenOf(i) :
            /\ orders[c].side = 1
            /\ \E e \in ExecutionsOf(i) : orders[c].stopPrice > executions[e].price

----------------------------------------------------------------------------
(* Properties of the validator *)

\* the prices an order payload supplies
SuppliedPrices(payload) ==
  {payload.limitPrice, payload.stopPrice, payload.stopLoss,
   payload.takeProfit} \ {Null}

\* C13: for every order validateOrder accepts, every supplied price is a
\* multiple of the symbol's tick size and the quantity is a positive
\* multiple of the symbol's lot size
C13_AcceptedOnTickAndLot ==
  (validator.last.called /\ validator.last.isValid) =>
    /\ \A price \in SuppliedPrices(validator.last.payload) :
         price % validator.last.symbolMeta.tickSize = 0
    /\ validator.last.payload.qty > 0
    /\ validator.last.payload.qty % validator.last.symbolMeta.lotSize = 0

\* C31: every Cover or Bracket order validateOrder accepts has a positive
\* stop-loss, no disclosed quantity, validity DAY and the kind limit or
\* market, and every accepted Bracket order has a positive take-profit too
C31_AcceptedCoverBracketShape ==
  (/\ validator.last.called /\ validator.last.isValid
   /\ validator.last.payload.productType \in {"CO", "BO"}) =>
    /\ Truthy(validator.last.payload.stopLoss)
    /\ validator.last.payload.stopLoss > 0
    /\ Num(validator.last.payload.disclosedQty) = 0
    /\ validator.last.payload.validity = "DAY"
    /\ validator.last.payload.type \in {1, 2}
    /\ validator.last.payload.productType = "BO" =>
          /\ Truthy(validator.last.payload.takeProfit)
          /\ validator.last.payload.takeProfit > 0

\* the price of an order: the limit price of a limit or stop-limit order, the
\* stop price of a stop order, the last traded price for a market order
\* (0 when there is no quote)
OrderPrice(payload, quote) ==
  IF payload.type \in {1, 4} THEN Num(payload.limitPrice)
  ELSE IF payload.type = 3 THEN Num(payload.stopPrice)
  ELSE Num(GetLTP(quote, UserToken))

\* C32: no order validateOrder accepts has a notional value (price times
\* quantity) above maxNotionalPerOrder, whatever its kind
C32_AcceptedWithinNotional ==
  (validator.last.called /\ validator.last.isValid) =>
    OrderPrice(validator.last.payload, validator.last.quote)
      * validator.last.payload.qty <= maxNotionalPerOrder * 1000

\* C33: a call of validateOrder, accepting or rejecting, changes no row of
\* any table: orders, executions, positions, alerts and the SymbolMeta table
\* are after the call what they were before it
C33_ValidateOrderWritesNothing ==
  [][validator'.last # validator.last =>
       /\ UNCHANGED <<orders, executions, positions, alerts>>
       /\ validator'.symbolMetaRows = validator.symbolMetaRows]_vars

\* C16: for every account and every minute, validateOrder has accepted at
\* most maxOrdersPerMinute orders
C16_OrderRateEnforced ==
  \A key \in DOMAIN validator.accepted :
    validator.accepted[key] <= maxOrdersPerMinute

----------------------------------------------------------------------------
(* Properties of the background cycle *)

\* C14: at most one body of processOrders is in progress at any time, the
\* flag isProcessing being set exactly while one is; and a tick that arrives
\* while a cycle is running returns without changing any order, execution,
\* position or the work of the running cycle
C14_SingleFlight ==
  /\ [](cycle.running <= 1 /\ (isProcessing <=> cycle.running = 1))
  /\ [][(cycle'.skipped /\ ~cycle.skipped) =>
          /\ isProcessing
          /\ UNCHANGED <<orders, executions, positions, proc, isProcessing>>
          /\ cycle'.queue = cycle.queue
          /\ cycle'.running = cycle.running]_vars

\* C14 witness: a tick has arrived and returned while the cycle is in the
\* middle of processing an order
C14_Witness ==
  /\ cycle.skipped
  /\ cycle.running = 1
  /\ proc["cycle"].pc \in {"toWorking", "simulate", "reject"}

----------------------------------------------------------------------------
(* Properties of the rate limiter *)

\* the requests of the client that passed checkRateLimit before delivery r
\* within the window (at - rateLimitWindow, at] of r: the earlier requests
\* of the initial state, all made at time 0, and the earlier deliveries not
\* answered 429
PassedBefore(r) ==
  (IF 0 > reqs[r].at - rateLimitWindow THEN PriorRequests ELSE 0)
  + Cardinality({q \in 1..(r - 1) :
                   /\ reqs[q].code # 429
                   /\ reqs[q].at > reqs[r].at - rateLimitWindow})

----------------------------------------------------------------------------
(* Properties of alert processing *)

TaskIds == 1..Len(tasks)

\* C17: when validateOrder has rejected the order of an alert and the
\* processing of the alert has finished, the alert has status rejected and
\* no order was created for it
C17_ValidationFailureRejectsAlert ==
  \A k \in TaskIds :
    (tasks[k].verdict = "invalid" /\ tasks[k].pc = "done") =>
      /\ alerts[tasks[k].alertId].status = "rejected"
      /\ OrdersOfAlerts({tasks[k].alertId}) = {}

\* a signal that names no symbol, no side or no quantity
Underspecified(alertData) ==
  alertData.symbol = "" \/ alertData.side = "" \/ alertData.quantity = 0

\* C18: once the processing of an alert whose signal lacks a symbol, a side
\* or a quantity has finished, the alert has status rejected, and no order is
\* ever created from such an alert
C18_UnderspecifiedSignalRejected ==
  \A k \in TaskIds :
    Underspecified(alerts[tasks[k].alertId].rawPayload) =>
      /\ OrdersOfAlerts({tasks[k].alertId}) = {}
      /\ tasks[k].pc = "done" => alerts[tasks[k].alertId].status = "rejected"

----------------------------------------------------------------------------
(* Properties of cancellation and of missing market data *)

\* C19: the step in which cancelOrder succeeds (its update, after which it
\* returns true) finds the order in state new or working and leaves it
\* cancelled; a call that finds the order in a terminal state changes nothing
C19_CancelOnlyOpenOrders ==
  [][/\ (canc.pc = "update" /\ canc'.pc = "idle") =>
          /\ orders[canc.orderId].state \in {"new", "working"}
          /\ orders'[canc.orderId].state = "cancelled"
     /\ (canc.pc = "idle" /\ canc'.pc = "update") =>
          orders[canc'.orderId].state \in {"new", "working"}]_vars

\* C20: when the fill attempt of an order found no market data (no fill
\* price could be simulated: the rejection reason "liquidity"), the step that
\* follows leaves the order in a non-terminal state
C20_NoDataKeepsOrderOpen ==
  [][\A t \in Threads :
       (proc[t].pc = "reject" /\ proc[t].reason = "liquidity"
        /\ proc'[t] # proc[t]) =>
         orders'[proc[t].orderId].state \notin TerminalStates]_vars

----------------------------------------------------------------------------
(* Properties of the fill-price simulation *)

\* the answer of the provider has a last-traded price, a bid and an ask
HasMarketData(q) == q.present /\ (q.lp # 0 \/ q.c # 0) /\ q.bid # 0 /\ q.ask # 0

\* C21: whenever simulateFillPrice was called while the last-traded price,
\* the bid or the ask was missing, it returned null, and so no fill is under
\* way at a price computed from a missing bid or ask
C21_NoFillWithoutMarketData ==
  \A t \in Threads :
    (proc[t].pc \in {"fillTx", "reject"} /\ proc[t].reason # "error"
     /\ ~HasMarketData(proc[t].quote)) =>
       /\ proc[t].simulated = Null
       /\ proc[t].pc # "fillTx"

\* the fills under way: the threads whose simulateFillPrice call returned a
\* price that processOrder accepted
Filling == {t \in Threads : proc[t].pc = "fillTx"}

----------------------------------------------------------------------------
(* Properties of the outcome of alert processing *)

\* C23: an alert whose processing has finished has status processed or
\* rejected, and no alert has a terminal status without a recorded reason:
\* a processed alert has an Order created from it (a rejected one has the
\* alert_rejected event, which rejectAlert writes with the status)
C23_TerminalAlertHasReason ==
  \A k \in TaskIds :
    LET a == tasks[k].alertId
    IN  /\ tasks[k].pc = "done" => alerts[a].status \in {"processed", "rejected"}
        /\ alerts[a].status = "processed" => OrdersOfAlerts({a}) # {}

----------------------------------------------------------------------------
(* Properties of the responses of the webhook gate *)

\* the deliveries answered with 400, 401 or 429
Refused == {r \in ReqIds : reqs[r].pc = "done" /\ reqs[r].code \in {400, 401, 429}}

\* the deliveries answered 200
Accepted == {r \in ReqIds : reqs[r].pc = "done" /\ reqs[r].code = 200}

\* C24: a delivery answered with 400, 401 or 429 reports no alert, and the
\* step that refuses it creates no alert and starts no processing; every
\* alert, and every started processing, belongs to a delivery answered 200
\* that names it, and a 200 response names an existing alert
C24_RefusedCreatesNothing ==
  /\ [](/\ \A r \in Refused : reqs[r].alertId = 0
        /\ \A r \in Accepted : reqs[r].alertId \in AlertIds
        /\ \A a \in AlertIds : \E r \in Accepted : reqs[r].alertId = a
        /\ Len(alerts) <= Cardinality(Accepted)
        /\ \A k \in TaskIds : tasks[k].alertId \in AlertIds
        /\ Len(tasks) = Len(alerts))
  /\ [][(Len(reqs') > Len(reqs) /\ reqs'[Len(reqs')].code \in {400, 401, 429})
          => UNCHANGED <<alerts, tasks, orders, strategies>>]_vars

\* C24 witness: one delivery was answered 200 for the alert it created, and
\* later deliveries were refused with two different codes out of 400, 401
\* and 429
C24_Witness ==
  \E r \in Accepted :
    /\ Len(alerts) = 1
    /\ Cardinality({reqs[q].code : q \in {x \in Refused : x > r}}) = 2

----------------------------------------------------------------------------
(* Properties of submission *)

\* the call of submitOrder returns in this step
SubmitReturns ==
  /\ proc["submit"].pc \notin {"idle", "ret"}
  /\ proc'["submit"].pc \in {"idle", "ret"}

\* the steps of processOrder
ProcessOrderSteps == {"find", "toWorking", "simulate", "fillTx", "reject"}

----------------------------------------------------------------------------
(* Properties of the fill attempt *)

\* thread t takes the step of processOrder that follows simulateFillPrice,
\* and the attempt yields no fill
NoFillStep(t) ==
  /\ proc[t].pc = "simulate"
  /\ proc'[t] # proc[t]
  /\ proc'[t].pc # "fillTx"

\* C26: a fill attempt that yields no fill sends a market order to
\* rejectOrder, whose step leaves it rejected, and leaves an order of any
\* other kind as it is, in state working; so only market orders are ever
\* rejected for lack of a fill
C26_NoFillRejectsOnlyMarket ==
  /\ [](\A i \in OrderIds : orders[i].state = "rejected" => orders[i].type = 2)
  /\ [][\A t \in Threads :
          LET i == proc[t].orderId
          IN  /\ NoFillStep(t) =>
                   IF orders[i].type = 2
                   THEN proc'[t].pc = "reject" /\ proc'[t].reason = "liquidity"
                   ELSE /\ proc'[t].pc # "reject" \/ proc'[t].orderId # i
                        /\ orders' = orders
                        /\ orders[i].state = "working"
              /\ (proc[t].pc = "reject" /\ proc'[t] # proc[t]) =>
                   orders'[i].state = "rejected"]_vars

\* C26 witness: a market order was rejected after an attempt without a fill,
\* and a limit or stop order is working after a background cycle that
\* attempted it has ended
C26_Witness ==
  /\ \E i \in OrderIds : orders[i].type = 2 /\ orders[i].state = "rejected"
  /\ \E j \in OrderIds : orders[j].type \in {1, 3} /\ orders[j].state = "working"
  /\ cycle.pc = "idle"
  /\ proc["submit"].pc = "idle"

----------------------------------------------------------------------------
(* Properties of the timer-driven cycle *)

\* order i exists, is not a market order, and is in state new or working
Resting(i) ==
  /\ i \in OrderIds
  /\ orders[i].type # 2
  /\ orders[i].state \in {"new", "working"}

\* C27: while the timer keeps ticking, every resting (non-market) order for
\* which the market offers a fillable price is eventually filled by a
\* background cycle
C27_TimerFillsFillable ==
  \A i \in 1..MaxSubmits :
    [](Resting(i) => <>(i \in OrderIds /\ orders[i].state = "filled"))

----------------------------------------------------------------------------
(* Properties of the fill price *)

\* the slippage simulateFillPrice computes on a quote
SlippageOn(q) == ((IF q.lp # 0 THEN q.lp ELSE q.c) * slippageBps) \div 10000

\* the executions of limit orders of one side
LimitExecutions(side) ==
  {e \in 1..Len(executions) :
     /\ orders[executions[e].orderId].type = 1
     /\ orders[executions[e].orderId].side = side}

LtpOn(q) == IF q.lp # 0 THEN q.lp ELSE q.c

----------------------------------------------------------------------------
(* Properties of the lineage of child orders *)

\* C30: once the processing of an alert has finished, every child order
\* spawned from the order of that alert carries the alert's id
C30_ChildrenCarryAlertId ==
  \A k \in TaskIds :
    (tasks[k].pc = "done" /\ tasks[k].orderId # 0) =>
      /\ orders[tasks[k].orderId].alertId = tasks[k].alertId
      /\ \A c \in ChildrenOf(tasks[k].orderId) :
           orders[c].alertId = tasks[k].alertId

----------------------------------------------------------------------------
(* Properties of the portfolio P&L *)

\* the sum of the stored mtm of the account's position rows
RECURSIVE StoredMtm(_, _)
StoredMtm(pos, K) ==
  IF K = {} THEN <<0, 1>>
  ELSE LET k == CHOOSE x \in K : TRUE
       IN  FracAdd(pos[k].mtm, StoredMtm(pos, K \ {k}))

\* C34: when calculatePortfolioPnL(userId) completes, the account's
\* Portfolio.totalPnl is the sum of the mtm stored on the account's position
\* rows, also when a quote was missing
C34_TotalPnlIsSumOfMtm ==
  [][(pnl.pc = "upsert" /\ pnl'.pc = "idle") =>
       portfolios'[pnl.userId].totalPnl =
         StoredMtm(positions', {k \in PosKeys : k[1] = pnl.userId
                                                /\ positions'[k].exists})]_vars

----------------------------------------------------------------------------
(* Properties of the single-flight flag under errors *)

\* C35: whenever no background cycle is in progress, also after a cycle
\* ended because the order query, processOrder or rejectOrder threw,
\* isProcessing is false; and a tick returns at the isProcessing check only
\* while a cycle is in progress
C35_FlagReleased ==
  /\ [](cycle.pc = "idle" => ~isProcessing)
  /\ [][(cycle'.skipped /\ ~cycle.skipped) => cycle.pc # "idle"]_vars

\* C35 witness: a cycle was left by the error of rejectOrder while an order
\* was still queued, and the flag is released
C35_Witness ==
  /\ cycle.pc = "idle"
  /\ cycle.thrown = "rejectOrder"
  /\ ~isProcessing
  /\ Cardinality({i \in 1..Len(orders) : orders[i].state \in {"new", "working"}}) = 2

----------------------------------------------------------------------------
(* Properties of the children of Cover and Bracket orders *)

\* the stop-loss child rows: children that carry a stop price
IsStopLossChild(order) == order.parent # 0 /\ order.stopPrice # Null

\* C36: a stop-loss child leaves the open states in a cycle (its fill is
\* decided, or its rejection for want of a fill) only on a quote whose last
\* traded price has crossed its stop price: at or below it for a sell child,
\* at or above it for a buy child
C36_StopLossChildWaitsForStop ==
  \A t \in Threads :
    (/\ proc[t].pc \in {"fillTx", "reject"}
     /\ proc[t].reason \in {"none", "liquidity"}
     /\ IsStopLossChild(orders[proc[t].orderId])) =>
      LET order == orders[proc[t].orderId]
      IN  /\ proc[t].quote.present
          /\ order.side = 0 - 1 => LtpOn(proc[t].quote) <= order.stopPrice
          /\ order.side = 1 => LtpOn(proc[t].quote) >= order.stopPrice

C38_NoCascade ==
  /\ [](\A c \in 1..Len(orders) :
          orders[c].parent # 0 =>
            /\ orders[c].productType = "INTRADAY"
            /\ orders[orders[c].parent].parent = 0)
  /\ [](\A i \in 1..Len(orders) :
          LET children == {c \in 1..Len(orders) : orders[c].parent = i}
          IN  /\ Cardinality(children) <= NumChildren(orders[i].productType)
              /\ orders[i].state = "filled" =>
                   Cardinality(children) = NumChildren(orders[i].productType))
  /\ [][\A c \in 1..Len(orders) :
          (orders[c].parent # 0 /\ orders'[c].state # orders[c].state) =>
            Len(orders') = Len(orders)]_vars

\* C38 witness: the background cycle has taken both children of a filled
\* Bracket order out of state new, and the parent still has its two children
\* and no other order exists
C38_Witness ==
  /\ Len(orders) = 3
  /\ orders[1].productType = "BO" /\ orders[1].state = "filled"
  /\ orders[2].parent = 1 /\ orders[2].state = "rejected"
  /\ orders[3].parent = 1 /\ orders[3].state = "working"
  /\ cycle.pc = "idle"

----------------------------------------------------------------------------
(* Properties of the processing timer *)

\* C39: at most one processing timer is live at any time, and it is the one
\* processingInterval holds; a start() while running changes no timer;
\* stop() leaves no timer; start() after stop() creates exactly one
C39_AtMostOneTimer ==
  /\ [](/\ Cardinality(timer.live) <= 1
        /\ timer.live = IF timer.processingInterval = 0 THEN {}
                         ELSE {timer.processingInterval})
  /\ [][(Start /\ timer.live # {}) => timer'.live = timer.live]_vars
  /\ [][Stop => timer'.live = {}]_vars
  /\ [][(Start /\ timer.live = {}) =>
          /\ Cardinality(timer'.live) = 1
          /\ timer'.created = timer.created + 1]_vars

\* C39 witness: the engine was stopped and started again, a start() arrived
\* while it was running, and the one live timer has started a cycle
C39_Witness ==
  /\ timer.created = 2
  /\ timer.ignored
  /\ timer.live = {2}
  /\ cycle.pc = "loop"

====
